---- MODULE Spec2Model ----
(***************************************************************************)
(* medorg: sidecar index (AsyncBkpXml), central index (Bdsa), the backup   *)
(* runners of medorg/cli/runners.py and the restore context.               *)
(*                                                                         *)
(* Paths are sequences of components: <<"s1","d","b">> is s1/d/b.  A       *)
(* source root is one component.  The relative filename column of the      *)
(* central index holds the components below the source root.              *)
(***************************************************************************)
EXTENDS Integers, Sequences, FiniteSets, TLC

VARIABLES
    disk,       \* source trees: path -> stat of every regular file present
    xml,        \* persisted sidecar document of every directory (sequence of fr elements)
    db,         \* central index as seen by the open session (rows in rowid order)
    committed,  \* central index as last committed
    todo,       \* remaining steps of the running command
    sess,       \* the running command, "idle" when none
    hist,       \* bookkeeping of copy invocations for the properties
    budget      \* remaining environment changes and commands

vars == <<disk, xml, db, committed, todo, sess, hist, budget>>

----------------------------------------------------------------------------
(* Bounds *)

MaxEnv == 1
MaxCmds == 3
MaxCrash == 1

----------------------------------------------------------------------------
(* Values *)

None == -1
NoMd5 == 0

Sources == <<"s1", "s2">>
SourceSet == {Sources[i] : i \in 1..Len(Sources)}
Dests == {"A", "B"}

\* one regular file per directory; s1/a and s2/a share a relative filename
Files == { <<"s1", "a">>, <<"s1", "d", "b">>, <<"s2", "a">> }
WalkOrder(s) == IF s = "s1" THEN << <<"s1">>, <<"s1", "d">> >> ELSE << <<"s2">> >>
Dirs == { <<"s1">>, <<"s1", "d">>, <<"s2">> }

\* stats a source file can carry: size, integer mtime (>= 1), content
Stats == { [size |-> 2, mtime |-> 1, data |-> 1],
           [size |-> 2, mtime |-> 2, data |-> 2] }

Parent(p) == SubSeq(p, 1, Len(p) - 1)
Name(p) == p[Len(p)]
RelativeTo(p, s) == SubSeq(p, 2, Len(p))
Join(s, rel) == <<s>> \o rel

\* the fingerprint of a content
Md5(data) == 100 + data

\* datetime.fromtimestamp of a number of seconds
FromTimestamp(t) == [dt |-> t]

RECURSIVE SetToSeq(_)
SetToSeq(S) ==
    IF S = {} THEN <<>>
    ELSE LET x == CHOOSE y \in S : TRUE IN <<x>> \o SetToSeq(S \ {x})

Range(s) == {s[i] : i \in 1..Len(s)}

----------------------------------------------------------------------------
(* Sidecar index: AsyncBkpXml over a document of fr elements *)

\* xml.sax.saxutils.escape followed by the quoting rules of _lkup_elem:
\* the literal that is compared with the fname attribute
XPathLiteral(key) ==
    IF key = "p&q" THEN "p&amp;q" ELSE key

\* _lkup_elem: position of the first fr element whose fname equals the literal, 0 if none
LkupElem(doc, key) ==
    LET hits == {i \in 1..Len(doc) : doc[i].fname = XPathLiteral(key)}
    IN IF hits = {} THEN 0 ELSE CHOOSE i \in hits : \A j \in hits : i <= j

\* BkpFile.from_file_elem / the zero-valued BkpFile of __getitem__
GetItem(doc, dir, key) ==
    LET i == LkupElem(doc, key)
    IN IF i = 0
       THEN [name |-> key, file_path |-> Append(dir, key), size |-> None,
             mtime |-> None, md5 |-> NoMd5, bkp_dests |-> {}]
       ELSE [name |-> key, file_path |-> Append(dir, key), size |-> doc[i].size,
             mtime |-> doc[i].mtime, md5 |-> doc[i].checksum, bkp_dests |-> doc[i].bd]

\* BkpFile.update_file_elem: an empty md5 is computed from the file
UpdateFileElem(value) ==
    [fname |-> value.name, mtime |-> value.mtime, size |-> value.size,
     checksum |-> IF value.md5 = NoMd5 /\ value.file_path \in DOMAIN disk
                  THEN Md5(disk[value.file_path].data) ELSE value.md5,
     bd |-> value.bkp_dests]

\* __setitem__
SetItem(doc, key, value) ==
    LET i == LkupElem(doc, key)
    IN IF i = 0 THEN Append(doc, UpdateFileElem(value))
       ELSE [doc EXCEPT ![i] = UpdateFileElem(value)]

\* _same_stats
SameStats(cand, sr) == cand.mtime = sr.mtime /\ cand.size = sr.size

\* visit_file: does the visit call the fingerprinter
VisitRecomputes(doc, dir, key, sr) ==
    LET cur == GetItem(doc, dir, key)
    IN cur.md5 = NoMd5 \/ ~SameStats(cur, sr)

\* visit_file: the document afterwards
VisitFile(doc, dir, key, sr) ==
    IF VisitRecomputes(doc, dir, key, sr)
    THEN SetItem(doc, key, [GetItem(doc, dir, key) EXCEPT
                              !.size = sr.size, !.mtime = sr.mtime, !.md5 = Md5(sr.data)])
    ELSE doc

\* variant of _remove_if_not_in_set that removes nothing
RemoveNothing(doc, names) == doc

\* _remove_if_not_in_set
RemoveIfNotInSet(doc, names) == SelectSeq(doc, LAMBDA e : e.fname \in names)

----------------------------------------------------------------------------
(* Central index: Bdsa over the backup_files rows *)

Min(S) == CHOOSE i \in S : \A j \in S : i <= j

\* aquery_one(BackupFile, BackupFile.filename == fn): first row, 0 if none
FilenameIdx(rows, fn) ==
    LET hits == {i \in 1..Len(rows) : rows[i].filename = fn}
    IN IF hits = {} THEN 0 ELSE Min(hits)

\* variant of the lookup of update_file that keys the rows by filename
\* and source
EntryIdxBySource(rows, fn, s) ==
    LET hits == {i \in 1..Len(rows) : rows[i].filename = fn /\ rows[i].src_path = s}
    IN IF hits = {} THEN 0 ELSE Min(hits)

\* update_file's lookup of the entry of a file of source s: by the
\* filename alone
EntryIdx(rows, fn, s) == FilenameIdx(rows, fn)

\* the source file a row stands for: src_path / filename
RowPath(r) == Join(r.src_path, r.filename)

\* variant of update_file that adds the record's destinations to the ones
\* the FileEntry already carries
UpdateFileKeepingDests(rows, bf, s) ==
    LET rel == RelativeTo(bf.file_path, s)
        i == EntryIdx(rows, rel, s)
        entry == [filename |-> rel, src_path |-> s, size |-> bf.size,
                  timestamp |-> FromTimestamp(bf.mtime), md5_hash |-> bf.md5,
                  visited |-> 0, dests |-> bf.bkp_dests]
    IN IF i = 0 THEN Append(rows, entry)
       ELSE [rows EXCEPT ![i] = [entry EXCEPT !.dests = @ \cup rows[i].dests]]

\* Bdsa.update_file: look the entry up by filename, create it if missing,
\* overwrite every column from the sidecar record (the records passed here
\* carry a fingerprint and an mtime >= 1, so the ValueError guard passes)
UpdateFile(rows, bf, s) ==
    LET rel == RelativeTo(bf.file_path, s)
        i == EntryIdx(rows, rel, s)
        entry == [filename |-> rel, src_path |-> s, size |-> bf.size,
                  timestamp |-> FromTimestamp(bf.mtime), md5_hash |-> bf.md5,
                  visited |-> 0, dests |-> bf.bkp_dests]
    IN IF i = 0 THEN Append(rows, entry) ELSE [rows EXCEPT ![i] = entry]

\* create_update_db_file_entries.my_walker: update_file, then visited = 1
MyWalker(rows, doc, dir, key, s) ==
    LET bf == GetItem(doc, dir, key)
        r1 == UpdateFile(rows, bf, s)
        i == EntryIdx(r1, RelativeTo(bf.file_path, s), s)
    IN [r1 EXCEPT ![i].visited = 1]

\* regular files directly in a directory
FilesIn(dir) == {f \in DOMAIN disk : Parent(f) = dir}

RECURSIVE VisitAll(_, _, _)
VisitAll(doc, dir, fs) ==
    IF fs = <<>> THEN doc
    ELSE VisitAll(VisitFile(doc, dir, Name(Head(fs)), disk[Head(fs)]), dir, Tail(fs))

RECURSIVE CallbackAll(_, _, _, _, _)
CallbackAll(rows, doc, dir, fs, s) ==
    IF fs = <<>> THEN rows
    ELSE CallbackAll(MyWalker(rows, doc, dir, Name(Head(fs)), s), doc, dir, Tail(fs), s)

\* BackupXmlWalker walk(current_path): load the sidecar, prune it to the
\* names on disk, visit every file, run the callbacks, commit the sidecar
WalkDir(st, dir, s) ==
    LET fs == SetToSeq(FilesIn(dir))
        doc0 == RemoveIfNotInSet(st.xml[dir], {Name(f) : f \in FilesIn(dir)})
        doc1 == VisitAll(doc0, dir, fs)
    IN [xml |-> [st.xml EXCEPT ![dir] = doc1],
        db |-> CallbackAll(st.db, doc1, dir, fs, s)]

RECURSIVE WalkDirs(_, _, _)
WalkDirs(st, dirs, s) ==
    IF dirs = <<>> THEN st
    ELSE WalkDirs(WalkDir(st, Head(dirs), s), Tail(dirs), s)

\* create_update_db_file_entries
CreateUpdateDbFileEntries(st, s) == WalkDirs(st, WalkOrder(s), s)

\* Bdsa.delete_unvisited_files under AsyncSessionWrapper.filter:
\* every row loses its flag, rows that did not carry it are deleted
DeleteUnvisitedFiles(rows) ==
    LET kept == SelectSeq(rows, LAMBDA r : r.visited # 0)
    IN [i \in 1..Len(kept) |-> [kept[i] EXCEPT !.visited = 0]]

\* Bdsa.clear_all_visited
ClearAllVisited(rows) == [i \in 1..Len(rows) |-> [rows[i] EXCEPT !.visited = 0]]

\* variant of the for_backup filter: only files that are on no destination
LacksAnyDest(r, d) == r.dests = {}

\* the filter of Bdsa.for_backup: rows without the destination
LacksDest(r, d) == d \notin r.dests

IsPerm(q, S) == Len(q) = Cardinality(S) /\ Range(q) = S

\* variant of for_backup without the ORDER BY
ForBackupUnordered(rows, d) ==
    LET sel == {i \in 1..Len(rows) : LacksDest(rows[i], d)}
    IN {q \in [1..Cardinality(sel) -> sel] : IsPerm(q, sel)}

\* Bdsa.for_backup: every order the query may return, rows without the
\* destination by descending size; rows of equal size in any order
ForBackup(rows, d) ==
    LET sel == {i \in 1..Len(rows) : LacksDest(rows[i], d)}
    IN {q \in [1..Cardinality(sel) -> sel] :
          /\ IsPerm(q, sel)
          /\ \A i, j \in 1..Len(q) : i < j => rows[q[i]].size >= rows[q[j]].size}

\* variant of add_tag_obj_to_backup_file that replaces the destination list
\* by the new tag
AddTagObjReplacingDests(r, d) ==
    [r EXCEPT !.dests = {d}, !.visited = 1]

\* Bdsa.add_tag_obj_to_backup_file
AddTagObjToBackupFile(r, d) ==
    IF d \notin r.dests THEN [r EXCEPT !.dests = @ \cup {d}, !.visited = 1] ELSE r

----------------------------------------------------------------------------
(* The backup runners, one command per database session *)

Outcomes == {"ok", "io", "nodir"}

Step(op, arg) == [op |-> op, arg |-> arg]

SidecarRecord(docs, f) == GetItem(docs[Parent(f)], Parent(f), Name(f))

\* variant of _backup_file without the source sidecar re-check
NeverAtDest(docs, f, d) == FALSE

\* _backup_file: the source sidecar already lists the destination
AlreadyAtDest(docs, f, d) == d \in SidecarRecord(docs, f).bkp_dests

\* _backup_file: the task reaches the destination checks, i.e. the
\* assertion that the row is not yet visited passes
TaskStarts(r) == r.visited = 0

\* _backup_file: is async_copy_file called for this task
CopyInvoked(docs, r, d, o) ==
    TaskStarts(r) /\ o # "nodir" /\ ~AlreadyAtDest(docs, RowPath(r), d)

\* variant of _backup_file that marks the row whatever the copy did
CopyDoneAnyOutcome(docs, r, d, o) ==
    TaskStarts(r) /\ ~AlreadyAtDest(docs, RowPath(r), d)

\* _backup_file: does the task reach file_entry.visited = 1
CopyDone(docs, r, d, o) ==
    TaskStarts(r) /\ o = "ok" /\ ~AlreadyAtDest(docs, RowPath(r), d)

NoCopies == [f \in Files |-> 0]
NoOutcomes == [f \in Files |-> "none"]
NoRuns == [d \in Dests |-> None]

\* bookkeeping of the running command, emptied when it ends
HistReset(h) ==
    [h EXCEPT !.copied = NoCopies, !.out = NoOutcomes, !.selected = {},
              !.pre = [db |-> <<>>, xml |-> [d \in Dirs |-> <<>>]],
              !.fresh = FALSE, !.allok = FALSE, !.phase = "none", !.lastSync = "",
              !.walked = {}, !.failed = FALSE]

\* what the copy phase of the running command met and did, from the
\* outcomes drawn and the sidecars as they were when it started
HadDest(f) == sess.dest \in SidecarRecord(hist.pre.xml, f).bkp_dests
WasVisited(f) == \E i \in 1..Len(hist.pre.db) :
                    RowPath(hist.pre.db[i]) = f /\ hist.pre.db[i].visited # 0
Succeeded(f) == hist.out[f] = "ok" /\ ~HadDest(f) /\ ~WasVisited(f)
IoFailed(f) == hist.out[f] = "io" /\ ~HadDest(f) /\ ~WasVisited(f)
TotalCopies == LET RECURSIVE Sum(_)
                   Sum(S) == IF S = {} THEN 0
                             ELSE LET f == CHOOSE g \in S : TRUE
                                  IN hist.copied[f] + Sum(S \ {f})
               IN Sum(Files)

Idle == [kind |-> "idle", dest |-> ""]

Init ==
    /\ disk \in [Files -> {[size |-> 2, mtime |-> 1, data |-> 1]}]
    /\ xml = [d \in Dirs |-> <<>>]
    /\ db = <<>>
    /\ committed = <<>>
    /\ todo = <<>>
    /\ sess = Idle
    /\ hist = [copied |-> NoCopies, out |-> NoOutcomes, selected |-> {},
               pre |-> [db |-> <<>>, xml |-> [d \in Dirs |-> <<>>]],
               fresh |-> FALSE, allok |-> FALSE, phase |-> "none", lastSync |-> "",
               done |-> NoRuns, retry |-> {}, walked |-> {}, failed |-> FALSE]
    /\ budget = [env |-> MaxEnv, cmds |-> MaxCmds, crash |-> MaxCrash]

\* the source trees change between commands
EnvChanged(h) == [h EXCEPT !.done = NoRuns, !.retry = {}]

DeleteFile(f) ==
    /\ sess = Idle /\ budget.env > 0
    /\ f \in DOMAIN disk
    /\ disk' = [g \in DOMAIN disk \ {f} |-> disk[g]]
    /\ hist' = EnvChanged(hist)
    /\ budget' = [budget EXCEPT !.env = @ - 1]
    /\ UNCHANGED <<xml, db, committed, todo, sess>>

WriteFile(f, st) ==
    /\ sess = Idle /\ budget.env > 0
    /\ f \in Files /\ st \in Stats
    /\ f \in DOMAIN disk => disk[f] # st
    /\ disk' = [g \in DOMAIN disk \cup {f} |-> IF g = f THEN st ELSE disk[g]]
    /\ hist' = EnvChanged(hist)
    /\ budget' = [budget EXCEPT !.env = @ - 1]
    /\ UNCHANGED <<xml, db, committed, todo, sess>>

Begin(kind, d, steps) ==
    /\ sess = Idle /\ budget.cmds > 0
    /\ sess' = [kind |-> kind, dest |-> d]
    /\ todo' = steps
    /\ hist' = [HistReset(hist) EXCEPT
                  !.fresh = \A f \in DOMAIN disk : ~AlreadyAtDest(xml, f, d)]
    /\ budget' = [budget EXCEPT !.cmds = @ - 1]
    /\ UNCHANGED <<disk, xml, db, committed>>

\* medback update: the selected sources in registration order, then the sweep
StartUpdate(sel) ==
    /\ sel # {}
    /\ Begin("update", "",
             SelectSeq([i \in 1..Len(Sources) |-> Step("sync", Sources[i])],
                       LAMBDA t : t.arg \in sel)
             \o <<Step("sweep", "")>>)

\* medback target
StartTarget(d) ==
    Begin("target", d, <<Step("copy", d), Step("propagate", d)>>)

\* runners.backup_files
StartBackup(d) ==
    Begin("backup", d,
          [i \in 1..Len(Sources) |-> Step("sync", Sources[i])]
          \o <<Step("sweep", ""), Step("copy", d), Step("propagate", d)>>)

NextStep(op) == todo # <<>> /\ Head(todo).op = op

\* create_update_db_file_entries: the walk, then on_dir_close commits the
\* session with the visited flags the walk has set
DoSync ==
    /\ NextStep("sync")
    /\ LET s == Head(todo).arg
           r == CreateUpdateDbFileEntries([xml |-> xml, db |-> db], s)
       IN /\ xml' = r.xml
          /\ db' = r.db
          /\ committed' = r.db
          /\ hist' = [hist EXCEPT !.phase = "synced", !.lastSync = s,
                                   !.walked = @ \cup {s},
                                   !.pre = [db |-> db, xml |-> xml]]
    /\ todo' = Tail(todo)
    /\ UNCHANGED <<disk, sess, budget>>

\* variant of backup_files and update that goes on with the next step when
\* a walk has failed
ContinueAfterFailedWalk(steps) == Tail(steps)

\* backup_files and update do not catch what create_update_db_file_entries
\* raises: no later step of the command runs
AfterFailedWalk(steps) == <<Step("raise", "")>>

\* create_update_db_file_entries fails: the directories before the failing
\* one are walked and their sidecars written, the failing one has had its
\* callbacks run for some of its files and its sidecar is not written, and
\* on_dir_close is not reached
DoSyncFails ==
    /\ NextStep("sync") /\ budget.crash > 0
    /\ LET s == Head(todo).arg
           order == WalkOrder(s)
       IN \E k \in 0..(Len(order) - 1) :
            LET r == WalkDirs([xml |-> xml, db |-> db], SubSeq(order, 1, k), s)
                dir == order[k + 1]
                fs == SetToSeq(FilesIn(dir))
                doc0 == RemoveIfNotInSet(r.xml[dir], {Name(f) : f \in FilesIn(dir)})
                doc1 == VisitAll(doc0, dir, fs)
            IN \E n \in 0..Len(fs) :
                 /\ xml' = r.xml
                 /\ db' = CallbackAll(r.db, doc1, dir, SubSeq(fs, 1, n), s)
    /\ todo' = AfterFailedWalk(todo)
    /\ hist' = [hist EXCEPT !.phase = "syncfailed", !.failed = TRUE]
    /\ budget' = [budget EXCEPT !.crash = @ - 1]
    /\ UNCHANGED <<disk, committed, sess>>

\* remove_unvisited_files_from_database
DoSweep ==
    /\ NextStep("sweep")
    /\ db' = DeleteUnvisitedFiles(db)
    /\ hist' = [hist EXCEPT !.phase = "swept"]
    /\ todo' = Tail(todo)
    /\ UNCHANGED <<disk, xml, committed, sess, budget>>

\* copy_best_files: one _backup_file task per selected row; building the
\* task list stops with FileNotFoundError at the first row whose source
\* file is gone (generate_src_dest_full_paths)
DoCopy ==
    /\ NextStep("copy")
    /\ LET d == Head(todo).arg
       IN \E q \in ForBackup(db, d) :
            LET path(i) == RowPath(db[q[i]])
                missing == {i \in 1..Len(q) : path(i) \notin DOMAIN disk}
                n == IF missing = {} THEN Len(q) ELSE Min(missing) - 1
            IN \E out \in [1..n -> Outcomes] :
                 /\ db' = [k \in 1..Len(db) |->
                             IF \E i \in 1..n : q[i] = k /\ CopyDone(xml, db[k], d, out[i])
                             THEN [db[k] EXCEPT !.visited = 1] ELSE db[k]]
                 /\ hist' = [hist EXCEPT
                      !.copied = [f \in Files |-> @[f] + Cardinality(
                                     {i \in 1..n : path(i) = f /\ CopyInvoked(xml, db[q[i]], d, out[i])})],
                      !.out = [f \in Files |->
                                 IF \E i \in 1..n : path(i) = f
                                 THEN out[CHOOSE i \in 1..n : path(i) = f] ELSE "none"],
                      !.selected = {path(i) : i \in 1..Len(q)},
                      !.pre = [db |-> db, xml |-> xml],
                      !.allok = /\ missing = {}
                                /\ \A i \in 1..n : out[i] = "ok" /\ TaskStarts(db[q[i]]),
                      !.phase = "copied"]
                 /\ todo' = IF missing = {} THEN Tail(todo) ELSE <<Step("raise", "")>>
    /\ UNCHANGED <<disk, xml, committed, sess, budget>>

\* variant of update_file_entry that refreshes the sidecar record but does
\* not add the destination to it
UpdateFileEntryNoTag(docs, f, d) ==
    [docs EXCEPT ![Parent(f)] = VisitFile(docs[Parent(f)], Parent(f), Name(f), disk[f])]

\* update_source_directory_entries.update_file_entry
UpdateFileEntry(docs, f, d) ==
    LET dir == Parent(f)
        doc1 == VisitFile(docs[dir], dir, Name(f), disk[f])
        props == GetItem(doc1, dir, Name(f))
    IN [docs EXCEPT ![dir] = SetItem(doc1, Name(f), [props EXCEPT !.bkp_dests = @ \cup {d}])]

RECURSIVE UpdateFileEntries(_, _, _)
UpdateFileEntries(docs, rows, d) ==
    IF rows = <<>> THEN docs
    ELSE UpdateFileEntries(UpdateFileEntry(docs, RowPath(Head(rows)), d), Tail(rows), d)

\* update_source_directory_entries: every row with visited != 0 gets the
\* destination in the central index and in its source sidecar
DoPropagate ==
    /\ NextStep("propagate")
    /\ LET d == Head(todo).arg
           vis == SelectSeq(db, LAMBDA r : r.visited # 0)
       IN /\ \A i \in 1..Len(vis) : RowPath(vis[i]) \in DOMAIN disk
          /\ db' = [k \in 1..Len(db) |->
                      IF db[k].visited # 0 THEN AddTagObjToBackupFile(db[k], d) ELSE db[k]]
          /\ xml' = UpdateFileEntries(xml, vis, d)
    /\ hist' = [hist EXCEPT !.phase = "propagated"]
    /\ todo' = Tail(todo)
    /\ UNCHANGED <<disk, committed, sess, budget>>

\* files whose copy to a destination failed in the last copy phase for
\* that destination
Retry ==
    {p \in hist.retry : ~(p[2] = sess.dest /\ hist.phase \in {"copied", "propagated"})}
    \cup {<<f, sess.dest>> : f \in {g \in Files : IoFailed(g)}}

\* DatabaseHandler.session_scope, normal exit: clear_all_visited and commit
Close ==
    /\ sess # Idle /\ todo = <<>>
    /\ db' = ClearAllVisited(db)
    /\ committed' = db'
    /\ sess' = Idle
    /\ hist' = [HistReset(hist) EXCEPT
                  !.done = IF sess.kind = "backup" /\ hist.allok /\ hist.fresh
                           THEN [@ EXCEPT ![sess.dest] = TotalCopies] ELSE @,
                  !.retry = Retry]
    /\ UNCHANGED <<disk, xml, todo, budget>>

\* DatabaseHandler.session_scope left by an exception or by the death of
\* the process: nothing after the yield runs, the transaction is rolled back
SessionLost ==
    /\ sess # Idle
    /\ \/ NextStep("raise") /\ budget' = budget
       \/ ~NextStep("raise") /\ budget.crash > 0
          /\ budget' = [budget EXCEPT !.crash = @ - 1]
    /\ db' = committed
    /\ sess' = Idle
    /\ todo' = <<>>
    /\ hist' = [HistReset(hist) EXCEPT !.retry = Retry]
    /\ UNCHANGED <<disk, xml, committed>>

Next ==
    \/ \E f \in Files : DeleteFile(f)
    \/ \E f \in Files, st \in Stats : WriteFile(f, st)
    \/ \E sel \in SUBSET SourceSet : StartUpdate(sel)
    \/ \E d \in Dests : StartTarget(d)
    \/ \E d \in Dests : StartBackup(d)
    \/ DoSync
    \/ DoSyncFails
    \/ DoSweep
    \/ DoCopy
    \/ DoPropagate
    \/ Close
    \/ SessionLost

Spec == Init /\ [][Next]_vars

TypeOK ==
    /\ DOMAIN disk \subseteq Files
    /\ \A i \in 1..Len(db) : db[i].visited \in {0, 1} /\ db[i].dests \subseteq Dests

----------------------------------------------------------------------------
(* Properties of the backup runners *)

BackupEnded == sess.kind = "backup" /\ todo = <<>>
AfterCopy == hist.phase \in {"copied", "propagated"}
RowOf(rows, f) == rows[CHOOSE i \in 1..Len(rows) : RowPath(rows[i]) = f]
Tracked(rows) == {RowPath(rows[i]) : i \in 1..Len(rows)}
TrackedFiles == Tracked(db) \cap DOMAIN disk
Recorded(f) ==
    /\ sess.dest \in RowOf(db, f).dests
    /\ sess.dest \in SidecarRecord(xml, f).bkp_dests
Untouched(f) ==
    /\ RowOf(db, f).visited = 0
    /\ RowOf(db, f).dests = RowOf(hist.pre.db, f).dests
    /\ SidecarRecord(xml, f).bkp_dests = SidecarRecord(hist.pre.xml, f).bkp_dests

\* C1: when backup_files has run to the end for a destination no sidecar
\* listed before and every copy succeeded, the copy operation was invoked
\* exactly once for every source file that has a FileEntry; when backup_files runs again for that
\* destination with the source trees unchanged, it invokes no copy at all.
C1_AtMostOnceCopy ==
    BackupEnded =>
        /\ (hist.fresh /\ hist.allok) =>
              /\ \A f \in TrackedFiles : hist.copied[f] = 1
              /\ TotalCopies = Cardinality(TrackedFiles)
        /\ hist.done[sess.dest] # None => TotalCopies = 0

C1_SecondRunCopiesNothing ==
    /\ BackupEnded /\ hist.phase = "propagated"
    /\ Cardinality(TrackedFiles) >= 2
    /\ hist.done[sess.dest] = Cardinality(TrackedFiles)
    /\ TotalCopies = 0

\* C2: once the propagate step of a run has finished, every FileEntry whose
\* copy did not succeed in this run has visited = 0, and its central
\* destination set and its source sidecar destination set are what they
\* were before the copy phase; so the destination is added only to files
\* copied in this run.
C2_TagOnlyAfterCopy ==
    hist.phase = "propagated" =>
        \A f \in Tracked(db) : ~Succeeded(f) => Untouched(f)

\* C3: after synchronize(source) and the sweep, the FileEntries of that
\* source are exactly the files now present under its root, one each.
C3_SweepLeavesPresentFiles ==
    hist.phase = "swept" =>
        LET own == {i \in 1..Len(db) : db[i].src_path = hist.lastSync}
            present == {f \in DOMAIN disk : f[1] = hist.lastSync}
        IN /\ {RowPath(db[i]) : i \in own} = present
           /\ Cardinality(own) = Cardinality(present)

C5_NoCopyWhenSidecarHasDest ==
    AfterCopy => \A f \in Files : HadDest(f) => hist.copied[f] = 0

C5_SelectedButSkipped ==
    /\ hist.phase = "copied"
    /\ \E f \in hist.selected :
          HadDest(f) /\ ~WasVisited(f) /\ hist.out[f] = "ok" /\ hist.copied[f] = 0

\* C6: the copy phase for a destination selects exactly the FileEntries
\* that lack that destination, whatever other destinations they carry; and
\* a complete backup to a destination that follows a complete backup to
\* another one copies every tracked source file once more (2N invocations
\* for N files) and leaves every one of them on both.
C6_DestinationIsolation ==
    /\ AfterCopy =>
          hist.selected = {f \in Tracked(hist.pre.db) :
                              sess.dest \notin RowOf(hist.pre.db, f).dests}
    /\ (BackupEnded /\ hist.fresh /\ hist.allok) =>
          \A e \in Dests \ {sess.dest} : hist.done[e] # None =>
              /\ \A f \in TrackedFiles : hist.copied[f] = 1
              /\ hist.done[e] + TotalCopies = 2 * Cardinality(TrackedFiles)
              /\ \A f \in TrackedFiles : {e, sess.dest} \subseteq RowOf(db, f).dests

C6_SecondDestinationCopiesAll ==
    /\ BackupEnded /\ hist.fresh /\ hist.allok
    /\ Cardinality(TrackedFiles) >= 2
    /\ TotalCopies = Cardinality(TrackedFiles)
    /\ \E e \in Dests \ {sess.dest} : hist.done[e] = Cardinality(TrackedFiles)

\* C14: FileEntries are keyed by (relative filename, source root):
\* synchronizing a source leaves every FileEntry of another source as it
\* was, and afterwards every file present under the synchronized source has
\* a FileEntry of its own, so two sources that hold the same relative
\* filename get one FileEntry each.
C14_KeyedByFilenameAndSource ==
    [][ (NextStep("sync") /\ todo' = Tail(todo)) =>
            LET s == Head(todo).arg
            IN /\ \A i \in 1..Len(db) :
                     db[i].src_path # s => (i <= Len(db') /\ db'[i] = db[i])
               /\ \A f \in DOMAIN disk :
                     f[1] = s => Cardinality({i \in 1..Len(db') : RowPath(db'[i]) = f}) = 1
      ]_vars

\* C15: the sweep that follows the synchronization of some sources retains
\* every FileEntry of a source that was not walked in this pass.
C15_SweepKeepsOtherSources ==
    [][ (NextStep("sweep") /\ todo' = Tail(todo)) =>
            \A i \in 1..Len(db) :
                db[i].src_path \notin hist.walked =>
                    \E j \in 1..Len(db') : /\ db'[j].filename = db[i].filename
                                           /\ db'[j].src_path = db[i].src_path
      ]_vars

\* C17: when the source file of a selected FileEntry is gone, the copy
\* phase makes no copy for it and goes on: the task of every other selected
\* entry is run and the command proceeds to record the copies made.
C17_MissingSourceSkipped ==
    hist.phase = "copied" =>
        \A x \in hist.selected \ DOMAIN disk :
            /\ hist.copied[x] = 0
            /\ \A f \in hist.selected \cap DOMAIN disk : hist.out[f] # "none"
            /\ NextStep("propagate")

----------------------------------------------------------------------------
(* AsyncBkpXml.visit_file on one directory, with a plain file name and one
   that holds an XML-special character *)

MaxTouch == 2
MaxVisits == 3
MaxTags == 1

VisitDir == <<"s1">>
VisitNames == {"a", "p&q"}
VisitFiles == {Append(VisitDir, n) : n \in VisitNames}
VisitStats == Stats \cup {[size |-> 3, mtime |-> 1, data |-> 3]}

NoVisit == [op |-> "none", key |-> "", sr |-> [size |-> 0, mtime |-> 0, data |-> 0],
            pre |-> <<>>, computed |-> FALSE]

VisitInit ==
    /\ disk \in [VisitFiles -> {[size |-> 2, mtime |-> 1, data |-> 1]}]
    /\ xml = [d \in Dirs |-> <<>>]
    /\ db = <<>>
    /\ committed = <<>>
    /\ todo = <<>>
    /\ sess = Idle
    /\ hist = NoVisit
    /\ budget = [env |-> MaxTouch, cmds |-> MaxVisits, crash |-> 0, tags |-> MaxTags]

\* the file is rewritten: new content, new size or modification time
Touch(f, st) ==
    /\ budget.env > 0
    /\ f \in VisitFiles /\ st \in VisitStats /\ disk[f] # st
    /\ disk' = [disk EXCEPT ![f] = st]
    /\ hist' = NoVisit
    /\ budget' = [budget EXCEPT !.env = @ - 1]
    /\ UNCHANGED <<xml, db, committed, todo, sess>>

\* bkp_xml.visit_file(entry, stat_result) as the walker calls it
Visit(n) ==
    /\ budget.cmds > 0
    /\ n \in VisitNames
    /\ LET doc == xml[VisitDir]
           sr == disk[Append(VisitDir, n)]
       IN /\ xml' = [xml EXCEPT ![VisitDir] = VisitFile(doc, VisitDir, n, sr)]
          /\ hist' = [op |-> "visit", key |-> n, sr |-> sr, pre |-> doc,
                      computed |-> VisitRecomputes(doc, VisitDir, n, sr)]
    /\ budget' = [budget EXCEPT !.cmds = @ - 1]
    /\ UNCHANGED <<disk, db, committed, todo, sess>>

\* update_source_directory_entries.update_file_entry on the file: the
\* record is refreshed and gets the destination
TagFile(n, d) ==
    /\ budget.tags > 0
    /\ n \in VisitNames
    /\ xml' = UpdateFileEntry(xml, Append(VisitDir, n), d)
    /\ hist' = NoVisit
    /\ budget' = [budget EXCEPT !.tags = @ - 1]
    /\ UNCHANGED <<disk, db, committed, todo, sess>>

VisitNext ==
    \/ \E f \in VisitFiles, st \in VisitStats : Touch(f, st)
    \/ \E n \in VisitNames : Visit(n)
    \/ \E n \in VisitNames : TagFile(n, "A")

SpecVisit == VisitInit /\ [][VisitNext]_vars

\* the records a sidecar document holds for a name, as its elements read
Stored(doc, n) == SelectSeq(doc, LAMBDA e : e.fname = n)

\* C7: visit_file computes the fingerprint exactly when the document holds
\* no record with a fingerprint for the name or the recorded size or mtime
\* differ from the stat; when it does not compute, the document is left as
\* it was; when it does, the document's record for the name afterwards
\* carries the stat's size and mtime and the new fingerprint.
C7_VisitRecomputesIffChanged ==
    hist.op = "visit" =>
        LET old == Stored(hist.pre, hist.key)
            new == Stored(xml[VisitDir], hist.key)
            changed == \/ old = <<>>
                       \/ old[1].checksum = NoMd5
                       \/ old[1].size # hist.sr.size
                       \/ old[1].mtime # hist.sr.mtime
        IN /\ hist.computed <=> changed
           /\ ~changed => xml[VisitDir] = hist.pre
           /\ changed => /\ Len(new) = 1
                         /\ new[1].size = hist.sr.size
                         /\ new[1].mtime = hist.sr.mtime
                         /\ new[1].checksum = Md5(hist.sr.data)

\* C20: when visit_file finds the record of the file with a size or an
\* mtime that is not the stat's and recomputes the fingerprint, the
\* record's destination set is empty afterwards.
C20_ChangedFileLosesDests ==
    hist.op = "visit" =>
        LET i == LkupElem(hist.pre, hist.key)
        IN (i # 0 /\ hist.pre[i].checksum # NoMd5
                  /\ ~SameStats(GetItem(hist.pre, VisitDir, hist.key), hist.sr)) =>
              /\ hist.computed
              /\ GetItem(xml[VisitDir], VisitDir, hist.key).md5 = Md5(hist.sr.data)
              /\ GetItem(xml[VisitDir], VisitDir, hist.key).bkp_dests = {}

----------------------------------------------------------------------------
(* The central index on its own: rows written by update_file, the
   for_backup query, discovery, and the restore context built from the
   index and added to an empty one *)

MaxAdds == 3
MaxImports == 1

IndexNames == { <<"a">>, <<"b">>, <<"d", "c">> }
\* size and fingerprint of the files the sidecars describe
IndexContents == { [size |-> 30, md5 |-> 101], [size |-> 30, md5 |-> 102],
                   [size |-> 3, md5 |-> 102] }
SrcOf(rel) == IF rel = <<"b">> THEN "s2" ELSE "s1"

\* files seen on a destination: name and fingerprint
Observed == { [name |-> "a", md5 |-> 102], [name |-> "x", md5 |-> 101] }

\* variant of _discover_one_file that matches on the file name
DiscoverMatchesByName(r, f) == Name(r.filename) = f.name

\* Bdsa._discover_one_file: BackupFile.md5_hash == file.md5
DiscoverMatches(r, f) == r.md5_hash = f.md5

\* Bdsa.discovery
Discovery(rows, files, d) ==
    [i \in 1..Len(rows) |->
        IF \E f \in files : DiscoverMatches(rows[i], f)
        THEN AddTagObjToBackupFile(rows[i], d) ELSE rows[i]]

\* a Python value that is a datetime, and one that is an int
PyDatetime(t) == [ty |-> "datetime", val |-> t]
PyInt(n) == [ty |-> "int", val |-> n]

\* RestoreContext.build_file_structure: one leaf per row, under its source
\* root and the directories of its filename; mtime is the row's timestamp
BuildFileStructure(rows) ==
    [i \in 1..Len(rows) |->
        [src_path |-> rows[i].src_path,
         dir |-> Parent(rows[i].filename),
         file |-> [name |-> Name(rows[i].filename), size |-> rows[i].size,
                   mtime |-> PyDatetime(rows[i].timestamp),
                   md5 |-> rows[i].md5_hash, bkp_dests |-> rows[i].dests]]]

\* Bdsa._add_directory_to_db: the row made for one leaf
RestoredRow(e) ==
    [filename |-> Append(e.dir, e.file.name), src_path |-> e.src_path,
     size |-> e.file.size, timestamp |-> FromTimestamp(e.file.mtime.val),
     md5_hash |-> e.file.md5,
     visited |-> IF e.file.bkp_dests = {} THEN 0 ELSE 1,
     dests |-> e.file.bkp_dests]

\* variant of add_restore_context that adds the leaves of the source roots
\* that have no rows yet before it refuses
AddRestoreContextMerging(rows, ctx) ==
    LET taken(s) == \E j \in 1..Len(rows) : rows[j].src_path = s
        free == SelectSeq(ctx, LAMBDA e : ~taken(e.src_path))
        merged == rows \o [i \in 1..Len(free) |-> RestoredRow(free[i])]
    IN IF \E i \in 1..Len(ctx) : taken(ctx[i].src_path)
       THEN [raised |-> "ValueError", rows |-> merged]
       ELSE [raised |-> "", rows |-> merged]

\* Bdsa.add_restore_context: ValueError if a source root of the context
\* already has rows; datetime.fromtimestamp raises TypeError for a leaf
\* whose mtime is not a number; an exception leaves the index as it was
AddRestoreContext(rows, ctx) ==
    IF \E i \in 1..Len(ctx), j \in 1..Len(rows) : rows[j].src_path = ctx[i].src_path
    THEN [raised |-> "ValueError", rows |-> rows]
    ELSE IF \E i \in 1..Len(ctx) : ctx[i].file.mtime.ty # "int"
    THEN [raised |-> "TypeError", rows |-> rows]
    ELSE [raised |-> "", rows |-> rows \o [i \in 1..Len(ctx) |-> RestoredRow(ctx[i])]]

\* restore contexts read from a document: mtime is an int
Leaf(s, dir, n, sz, h, ds) ==
    [src_path |-> s, dir |-> dir,
     file |-> [name |-> n, size |-> sz, mtime |-> PyInt(1), md5 |-> h, bkp_dests |-> ds]]
ParsedContexts == { << Leaf("s2", <<"d">>, "e", 30, 101, {"B"}) >>,
                    << Leaf("s3", <<"d">>, "e", 3, 101, {"B"}),
                       Leaf("s1", <<"d">>, "k", 3, 102, {}) >> }

NoQuery == [op |-> "none", dest |-> "", files |-> {}, pre |-> <<>>, result |-> <<>>,
            imported |-> <<>>, raised |-> "", repeat |-> FALSE, ctx |-> <<>>]

IndexInit ==
    /\ disk = <<>>
    /\ xml = [d \in Dirs |-> <<>>]
    /\ db = <<>>
    /\ committed = <<>>
    /\ todo = <<>>
    /\ sess = Idle
    /\ hist = NoQuery
    /\ budget = [env |-> MaxImports, cmds |-> MaxAdds, crash |-> 0]

\* Bdsa.update_file for a file record read from a sidecar
IndexUpdateFile(rel, c) ==
    /\ budget.cmds > 0
    /\ LET s == SrcOf(rel)
           bf == [name |-> Name(rel), file_path |-> Join(s, rel), size |-> c.size,
                  mtime |-> 1, md5 |-> c.md5, bkp_dests |-> {}]
       IN db' = UpdateFile(db, bf, s)
    /\ hist' = NoQuery
    /\ budget' = [budget EXCEPT !.cmds = @ - 1]
    /\ UNCHANGED <<disk, xml, committed, todo, sess>>

\* medback add_restore_context with a parsed document
IndexAddRestoreContext(ctx) ==
    /\ budget.env > 0
    /\ LET r == AddRestoreContext(db, ctx)
       IN /\ db' = r.rows
          /\ hist' = [NoQuery EXCEPT !.op = "import", !.pre = db, !.raised = r.raised,
                                      !.ctx = ctx]
    /\ budget' = [budget EXCEPT !.env = @ - 1]
    /\ UNCHANGED <<disk, xml, committed, todo, sess>>

\* Bdsa.for_backup
IndexForBackup(d) ==
    /\ \E q \in ForBackup(db, d) :
          hist' = [NoQuery EXCEPT !.op = "for_backup", !.dest = d, !.pre = db, !.result = q]
    /\ UNCHANGED <<disk, xml, db, committed, todo, sess, budget>>

\* Bdsa.discovery
IndexDiscovery(files, d) ==
    /\ db' = Discovery(db, files, d)
    /\ hist' = [NoQuery EXCEPT !.op = "discovery", !.dest = d, !.files = files, !.pre = db,
                  !.repeat = hist.op = "discovery" /\ hist.dest = d /\ hist.files = files]
    /\ UNCHANGED <<disk, xml, committed, todo, sess, budget>>

\* build_file_structure on this index, add_restore_context on an empty one
IndexExportImport ==
    /\ LET r == AddRestoreContext(<<>>, BuildFileStructure(db))
       IN hist' = [NoQuery EXCEPT !.op = "restore", !.pre = db,
                     !.imported = r.rows, !.raised = r.raised]
    /\ UNCHANGED <<disk, xml, db, committed, todo, sess, budget>>

IndexNext ==
    \/ \E rel \in IndexNames, c \in IndexContents : IndexUpdateFile(rel, c)
    \/ \E ctx \in ParsedContexts : IndexAddRestoreContext(ctx)
    \/ \E d \in Dests : IndexForBackup(d)
    \/ \E files \in SUBSET Observed \ {{}} : IndexDiscovery(files, "A")
    \/ IndexExportImport

SpecIndex == IndexInit /\ [][IndexNext]_vars

Lacking == {i \in 1..Len(hist.pre) : hist.dest \notin hist.pre[i].dests}
LargestFirst(q) ==
    /\ Range(q) = Lacking
    /\ Len(q) = Cardinality(Lacking)
    /\ \A i, j \in 1..Len(q) : i < j => hist.pre[q[i]].size >= hist.pre[q[j]].size

\* C8 (as stated): for_backup(D) returns exactly the rows lacking D, each
\* once, by non-increasing size, rows of equal size in insertion order.
C8_TiesInInsertionOrder ==
    hist.op = "for_backup" =>
        /\ LargestFirst(hist.result)
        /\ \A i, j \in 1..Len(hist.result) :
              (i < j /\ hist.pre[hist.result[i]].size = hist.pre[hist.result[j]].size)
                  => hist.result[i] < hist.result[j]

\* C8 (amended): for_backup(D) returns exactly the rows lacking D, each
\* once, by non-increasing size; the order among rows of equal size is not
\* determined.
C8_ForBackupLargestFirst ==
    hist.op = "for_backup" => LargestFirst(hist.result)

C8_TiesAndExclusions ==
    /\ hist.op = "for_backup"
    /\ Len(hist.result) = 3
    /\ Len(hist.pre) > 3
    /\ \E i, j \in 1..3 : i < j /\ hist.pre[hist.result[i]].size = hist.pre[hist.result[j]].size
    /\ \E i, j \in 1..3 : hist.pre[hist.result[i]].size > hist.pre[hist.result[j]].size

Observes(r) == \E f \in hist.files : f.md5 = r.md5_hash

\* C9: discovery(files, D) adds D to exactly the rows whose fingerprint is
\* the fingerprint of an observed file, whatever the names; it adds no row,
\* leaves every other row as it was, and leaves the destination sets as
\* they are when the same discovery is repeated.
C9_DiscoveryByFingerprint ==
    hist.op = "discovery" =>
        /\ Len(db) = Len(hist.pre)
        /\ \A i \in 1..Len(db) :
              IF Observes(hist.pre[i])
              THEN /\ db[i].dests = hist.pre[i].dests \cup {hist.dest}
                   /\ [db[i] EXCEPT !.dests = {}, !.visited = 0]
                        = [hist.pre[i] EXCEPT !.dests = {}, !.visited = 0]
              ELSE db[i] = hist.pre[i]
        /\ hist.repeat => \A i \in 1..Len(db) : db[i].dests = hist.pre[i].dests

C9_RenamedTaggedNamesakeNot ==
    /\ hist.op = "discovery" /\ hist.repeat
    /\ \E i, j \in 1..Len(db) :
          /\ Observes(db[i]) /\ hist.dest \in db[i].dests
          /\ \A f \in hist.files : f.name # Name(db[i].filename)
          /\ ~Observes(db[j]) /\ hist.dest \notin db[j].dests
          /\ \E f \in hist.files : f.name = Name(db[j].filename)

Entries(rows) ==
    {[src_path |-> rows[i].src_path, filename |-> rows[i].filename, size |-> rows[i].size,
      md5_hash |-> rows[i].md5_hash, dests |-> rows[i].dests] : i \in 1..Len(rows)}

\* C10: the restore context built from an index, added to an empty index,
\* yields the same entries: source root, filename, size, fingerprint and
\* destination set of every row.
C10_ExportImportRoundTrip ==
    hist.op = "restore" => Entries(hist.imported) = Entries(hist.pre)

\* the source roots of a context, and those that already have rows
ContextRoots(ctx) == {ctx[i].src_path : i \in 1..Len(ctx)}
RowRoots(rows) == {rows[i].src_path : i \in 1..Len(rows)}

\* C12: add_restore_context raises an error whenever a row already exists
\* for some source root of the context, and then the index holds exactly
\* the rows, with exactly the destinations, it held before: nothing is
\* added for any source root of the context, also not for the roots that
\* had no rows.
C12_ImportRefusedWhole ==
    (hist.op = "import" /\ ContextRoots(hist.ctx) \cap RowRoots(hist.pre) # {}) =>
        /\ hist.raised = "ValueError"
        /\ db = hist.pre

C12_RefusedWithFreeRoot ==
    /\ hist.op = "import" /\ hist.raised = "ValueError"
    /\ ContextRoots(hist.ctx) \cap RowRoots(hist.pre) # {}
    /\ ContextRoots(hist.ctx) \ RowRoots(hist.pre) # {}
    /\ Len(db) >= 2 /\ db = hist.pre

----------------------------------------------------------------------------
(* The restore context and its document: RestoreContext, RestoreDirectory
   and RestoreFile of restore/structs.py.  An element is a record of tag,
   attrib, text and children *)

MaxLeaves == 2

RestoreSources == {"s1", "s2"}
RestorePaths == { <<>>, <<"d">>, <<"d", "e">> }
RestoreFiles ==
    { [name |-> "f", size |-> 3, file_path |-> None, mtime |-> 7, md5 |-> 101,
       bkp_dests |-> {"A", "B"}],
      [name |-> "g", size |-> 0, file_path |-> None, mtime |-> None, md5 |-> NoMd5,
       bkp_dests |-> {}] }

\* Python str() of an int or of None
Str(v) == IF v = None THEN "None" ELSE ToString(v)

\* Python int() of a decimal string
IntRange == 0..9
IntOf(str) == CHOOSE n \in IntRange : ToString(n) = str

\* etree.Element(tag, **attrib) with children appended in order
Element(tag, attrib, text, children) ==
    [tag |-> tag, attrib |-> attrib, text |-> text, children |-> children]

\* element.findall(tag): the direct children with the tag, in document order
FindAll(e, tag) == SelectSeq(e.children, LAMBDA c : c.tag = tag)

\* RestoreDirectory(name)
RestoreDirectory(name) == [name |-> name, files |-> <<>>, subdirectories |-> <<>>]

\* build_file_structure, lines 112-132: descend from the source root along
\* the directory parts, creating what is missing, and add the leaf
RECURSIVE AddLeaf(_, _, _)
AddLeaf(dir, parts, file) ==
    IF parts = <<>> THEN [dir EXCEPT !.files = Append(@, file)]
    ELSE LET subs == dir.subdirectories
             hits == {i \in 1..Len(subs) : subs[i].name = Head(parts)}
         IN IF hits = {}
            THEN [dir EXCEPT !.subdirectories =
                     Append(@, AddLeaf(RestoreDirectory(Head(parts)), Tail(parts), file))]
            ELSE [dir EXCEPT !.subdirectories[Min(hits)] = AddLeaf(@, Tail(parts), file)]

\* file_structure after one more leaf under a source root
AddToFileStructure(fs, src, parts, file) ==
    LET cur == IF src \in DOMAIN fs THEN fs[src] ELSE RestoreDirectory(src)
    IN [s \in DOMAIN fs \cup {src} |-> IF s = src THEN AddLeaf(cur, parts, file) ELSE fs[s]]

\* RestoreFile.to_element
RestoreFileToElement(f) ==
    LET ds == SetToSeq(f.bkp_dests)
    IN Element("file",
               [name |-> f.name, size |-> Str(f.size), mtime |-> Str(f.mtime), md5 |-> f.md5],
               "",
               [i \in 1..Len(ds) |-> Element("bd", <<>>, ds[i], <<>>)])

\* RestoreFile.from_element
RestoreFileFromElement(e) ==
    [name |-> e.attrib.name,
     size |-> IntOf(e.attrib.size),
     file_path |-> None,
     mtime |-> IF e.attrib.mtime # "None" THEN IntOf(e.attrib.mtime) ELSE None,
     md5 |-> e.attrib.md5,
     bkp_dests |-> {c.text : c \in Range(FindAll(e, "bd"))}]

\* RestoreDirectory.to_element
RECURSIVE RestoreDirectoryToElement(_)
RestoreDirectoryToElement(d) ==
    Element("dr", [name |-> d.name], "",
            [i \in 1..Len(d.files) |-> RestoreFileToElement(d.files[i])]
            \o [i \in 1..Len(d.subdirectories) |->
                  RestoreDirectoryToElement(d.subdirectories[i])])

\* RestoreDirectory.from_element
RECURSIVE RestoreDirectoryFromElement(_)
RestoreDirectoryFromElement(e) ==
    LET fl == FindAll(e, "file")
        dl == FindAll(e, "dr")
    IN [name |-> e.attrib.name,
        files |-> [i \in 1..Len(fl) |-> RestoreFileFromElement(fl[i])],
        subdirectories |-> [i \in 1..Len(dl) |-> RestoreDirectoryFromElement(dl[i])]]

\* RestoreContext.to_element: one rc element per source root, holding the
\* root's files and then its subdirectories
RestoreContextToElement(fs) ==
    LET roots == SetToSeq(DOMAIN fs)
    IN Element("root", <<>>, "",
               [k \in 1..Len(roots) |->
                  LET d == fs[roots[k]]
                  IN Element("rc", [src_path |-> roots[k]], "",
                             [i \in 1..Len(d.files) |-> RestoreFileToElement(d.files[i])]
                             \o [i \in 1..Len(d.subdirectories) |->
                                   RestoreDirectoryToElement(d.subdirectories[i])])])

\* RestoreContext.from_element: per rc element a directory named after the
\* source root that receives the rc's dr children
RestoreContextFromElement(e) ==
    LET rcs == FindAll(e, "rc")
    IN [s \in {rcs[k].attrib.src_path : k \in 1..Len(rcs)} |->
          LET rc == rcs[CHOOSE k \in 1..Len(rcs) : rcs[k].attrib.src_path = s]
              dl == FindAll(rc, "dr")
          IN [name |-> s, files |-> <<>>,
              subdirectories |-> [i \in 1..Len(dl) |-> RestoreDirectoryFromElement(dl[i])]]]

NoDocument == Element("none", <<>>, "", <<>>)

RestoreInit ==
    /\ disk = <<>>
    /\ xml = [d \in Dirs |-> <<>>]
    /\ db = <<>>
    /\ committed = <<>>
    /\ todo = <<>>
    /\ sess = Idle
    /\ hist = [op |-> "build", tree |-> <<>>, doc |-> NoDocument, parsed |-> <<>>]
    /\ budget = [env |-> 0, cmds |-> MaxLeaves, crash |-> 0]

\* one more leaf file in the file structure
RestoreAddFile(src, parts, file) ==
    /\ hist.op = "build" /\ budget.cmds > 0
    /\ hist' = [hist EXCEPT !.tree = AddToFileStructure(@, src, parts, file)]
    /\ budget' = [budget EXCEPT !.cmds = @ - 1]
    /\ UNCHANGED <<disk, xml, db, committed, todo, sess>>

\* RestoreContext.to_element
RestoreToElement ==
    /\ hist.op = "build"
    /\ hist' = [hist EXCEPT !.op = "document", !.doc = RestoreContextToElement(hist.tree)]
    /\ UNCHANGED <<disk, xml, db, committed, todo, sess, budget>>

\* RestoreContext.from_element on the document written
RestoreFromElement ==
    /\ hist.op = "document"
    /\ hist' = [hist EXCEPT !.op = "parsed", !.parsed = RestoreContextFromElement(hist.doc)]
    /\ UNCHANGED <<disk, xml, db, committed, todo, sess, budget>>

RestoreNext ==
    \/ \E src \in RestoreSources, parts \in RestorePaths, file \in RestoreFiles :
          RestoreAddFile(src, parts, file)
    \/ RestoreToElement
    \/ RestoreFromElement

SpecRestore == RestoreInit /\ [][RestoreNext]_vars

\* C11: the file structure parsed from the document of a restore context
\* is that restore context: the same source roots, under each the same
\* nested directories, and in each directory the same leaf files with
\* name, size, mtime, fingerprint and destination set, also for files
\* located directly under a source root.
C11_DocumentRoundTrip ==
    hist.op = "parsed" => hist.parsed = hist.tree

\* the same, for the file structures that hold no file directly under a
\* source root
C11_RoundTripBelowDirectories ==
    (hist.op = "parsed" /\ \A s \in DOMAIN hist.tree : hist.tree[s].files = <<>>)
        => hist.parsed = hist.tree

----------------------------------------------------------------------------
(* BackupXmlWalker.go_walk over a tree with a hidden directory, nested
   directories, sidecar documents and another reserved name.  Here disk
   gives kind and stat of every entry, directories included; the sidecar
   document of a directory is the entry XML_NAME in it, with content
   xml[dir] *)

MaxWalks == 2

XML_NAME == ".bkp.xml"
ReservedNames == {XML_NAME, ".bkp_id"}

\* str.startswith(".") on the names that occur
StartsWithDot(name) == name \in {".h", ".hf", ".bkp.xml", ".bkp_id"}

WalkRoot == <<"r">>
TreeDirs == { <<"r">>, <<"r", ".h">>, <<"r", "d">>, <<"r", "d", "e">> }
TreeFiles == { <<"r", "a">>, <<"r", ".hf">>, <<"r", ".bkp_id">>, <<"r", ".bkp.xml">>,
               <<"r", ".h", "x">>, <<"r", "d", "b">>, <<"r", "d", ".bkp.xml">>,
               <<"r", "d", "e", "c">> }
XmlPath(dir) == Append(dir, XML_NAME)
TreePaths == TreeFiles \cup {XmlPath(d) : d \in TreeDirs}

RegularFile == [kind |-> "file", size |-> 2, mtime |-> 1, data |-> 1]
Directory == [kind |-> "dir", size |-> 0, mtime |-> 1, data |-> 0]

\* a document left by an earlier walk: the record of a file since deleted
StaleDocument == << [fname |-> "gone", mtime |-> 1, size |-> 2, checksum |-> Md5(1), bd |-> {}] >>

\* current_path.glob("*")
Glob(dir) == {p \in DOMAIN disk : Len(p) = Len(dir) + 1 /\ Parent(p) = dir}

\* _build_entry_stats: the entries that are stat'ed, reserved names left out
BuildEntryStats(dir) == {p \in Glob(dir) : Name(p) \notin ReservedNames}

\* _visit_files_and_dirs: the regular files found
FileEntries(dir) == {p \in BuildEntryStats(dir) : disk[p].kind = "file"}

\* variant of _visit_files_and_dirs that descends into hidden directories
DirEntriesWithHidden(dir) == {p \in BuildEntryStats(dir) : disk[p].kind = "dir"}

\* _visit_files_and_dirs: the directories to descend into
DirEntries(dir) ==
    {p \in BuildEntryStats(dir) : disk[p].kind = "dir" /\ ~StartsWithDot(Name(p))}

\* AsyncBkpXml.init_structs: the document read, empty if there is none
InitStructs(dir) == IF XmlPath(dir) \in DOMAIN disk THEN xml[dir] ELSE <<>>

\* _visit_files_and_dirs: the in-memory document once pruned and visited
VisitFilesAndDirs(dir) ==
    VisitAll(RemoveIfNotInSet(InitStructs(dir), {Name(f) : f \in FileEntries(dir)}),
             dir, SetToSeq(FileEntries(dir)))

\* AsyncBkpXml.commit: xml_path.write_text of the serialized document
Commit(tree, dir, doc) ==
    [p \in DOMAIN tree \cup {XmlPath(dir)} |->
        IF p = XmlPath(dir) THEN RegularFile ELSE tree[p]]

\* _visit_files_and_dirs, lines 119-120: xml_file.unlink() when no regular
\* file was found
UnlinkIfEmpty(tree, dir) ==
    IF FileEntries(dir) = {} /\ XmlPath(dir) \in DOMAIN tree
    THEN [p \in DOMAIN tree \ {XmlPath(dir)} |-> tree[p]]
    ELSE tree

NoCalls == [p \in TreePaths |-> 0]

WalkInit ==
    /\ \E present \in SUBSET TreeFiles :
          disk = [p \in TreeDirs \cup present |->
                    IF p \in TreeDirs THEN Directory ELSE RegularFile]
    /\ xml = [d \in TreeDirs |-> IF XmlPath(d) \in DOMAIN disk THEN StaleDocument ELSE <<>>]
    /\ db = <<>>
    /\ committed = <<>>
    /\ todo = {}
    /\ sess = Idle
    /\ hist = [calls |-> NoCalls, closed |-> {}, empty |-> {}, pruned |-> {}]
    /\ budget = [env |-> 0, cmds |-> MaxWalks, crash |-> 0]

\* go_walk: the walk starts at the root
GoWalk ==
    /\ sess = Idle /\ budget.cmds > 0
    /\ sess' = [kind |-> "walk", dest |-> ""]
    /\ todo' = {WalkRoot}
    /\ hist' = [calls |-> NoCalls, closed |-> {}, empty |-> {}, pruned |-> {}]
    /\ budget' = [budget EXCEPT !.cmds = @ - 1]
    /\ UNCHANGED <<disk, xml, db, committed>>

\* walk(current_path) for one pending directory: glob, visit the files,
\* run the callbacks, commit the sidecar, schedule the subdirectories
Walk(dir) ==
    /\ sess.kind = "walk" /\ dir \in todo
    /\ LET doc == VisitFilesAndDirs(dir)
       IN /\ xml' = [xml EXCEPT ![dir] = doc]
          /\ disk' = Commit(UnlinkIfEmpty(disk, dir), dir, doc)
    /\ hist' = [hist EXCEPT
                  !.calls = [p \in TreePaths |-> IF p \in FileEntries(dir) THEN @[p] + 1 ELSE @[p]],
                  !.closed = @ \cup {dir},
                  !.pruned = IF \E i \in 1..Len(InitStructs(dir)) :
                                   InitStructs(dir)[i].fname \notin {Name(f) : f \in FileEntries(dir)}
                             THEN @ \cup {dir} ELSE @,
                  !.empty = IF FileEntries(dir) = {} THEN @ \cup {dir} ELSE @]
    /\ todo' = (todo \ {dir}) \cup DirEntries(dir)
    /\ UNCHANGED <<db, committed, sess, budget>>

\* go_walk returns once every directory task has finished
GoWalkReturn ==
    /\ sess.kind = "walk" /\ todo = {}
    /\ sess' = Idle
    /\ UNCHANGED <<disk, xml, db, committed, todo, hist, budget>>

WalkNext ==
    \/ GoWalk
    \/ \E dir \in TreeDirs : Walk(dir)
    \/ GoWalkReturn

SpecWalk == WalkInit /\ [][WalkNext]_vars

WalkFinished == sess.kind = "walk" /\ todo = {}

\* a regular file below the root with no reserved name and no directory
\* on the way from the root whose name starts with '.'
Reachable(p) ==
    /\ p \in DOMAIN disk /\ disk[p].kind = "file"
    /\ Name(p) \notin ReservedNames
    /\ \A k \in 2..(Len(p) - 1) : ~StartsWithDot(p[k])

\* C13: when go_walk has finished, the callback has been invoked exactly
\* once for every regular file reachable from the root through non-hidden
\* directories, and not at all for a sidecar document, another reserved
\* name or a file under a directory whose name starts with '.'.
C13_CallbackOncePerReachableFile ==
    WalkFinished =>
        \A p \in TreePaths : hist.calls[p] = IF Reachable(p) THEN 1 ELSE 0

C13_SkipsHiddenAndReserved ==
    /\ WalkFinished /\ budget.cmds = 0
    /\ hist.calls[<<"r", "d", "e", "c">>] = 1 /\ hist.calls[<<"r", ".hf">>] = 1
    /\ <<"r", ".h", "x">> \in DOMAIN disk /\ hist.calls[<<"r", ".h", "x">>] = 0
    /\ <<"r", ".bkp_id">> \in DOMAIN disk /\ hist.calls[<<"r", ".bkp_id">>] = 0
    /\ XmlPath(<<"r", "d">>) \in DOMAIN disk /\ hist.calls[XmlPath(<<"r", "d">>)] = 0

\* C16: once the walker has finished a directory in which it found no
\* regular file, that directory holds no sidecar document.
C16_NoDocumentInEmptyDirectory ==
    \A dir \in hist.empty : XmlPath(dir) \notin DOMAIN disk

----------------------------------------------------------------------------
(* The fingerprinter of common/checksum.py: calculate_md5 and
   async_calculate_md5 read the same file chunk by chunk and feed
   md5_generator.  Here disk is the content of the file, a sequence of
   bytes.  The chunk sizes are scaled down: SyncChunk stands for the 4096
   bytes per read of calculate_md5, AsyncChunk for the 8192 of
   async_calculate_md5 *)

SyncChunk == 2
AsyncChunk == 4
MaxBytes == 5

Bytes == {0, 1}
Contents == UNION {[1..n -> Bytes] : n \in 0..MaxBytes}

\* variant of f.read(n) that returns full chunks only
FileReadWholeChunks(content, pos, n) ==
    IF pos + n <= Len(content) THEN SubSeq(content, pos + 1, pos + n) ELSE <<>>

\* f.read(n) at an offset: up to n bytes, empty at the end of the file
FileRead(content, pos, n) ==
    SubSeq(content, pos + 1, IF pos + n <= Len(content) THEN pos + n ELSE Len(content))

\* hashlib.md5(): update() absorbs the bytes after those absorbed before,
\* digest() is 16 bytes determined by everything absorbed
HashNew == <<>>
HashUpdate(h, chunk) == h \o chunk
HashDigest(h) == [bytes |-> 16, of |-> h]

\* base64.b64encode: four characters per three bytes, '=' padding
B64Encode(d) ==
    [len |-> 4 * ((d.bytes + 2) \div 3), pad |-> (3 - (d.bytes % 3)) % 3, of |-> d.of]

\* md5_generator, the value returned: the two padding characters cut off
Md5GeneratorReturn(h) ==
    LET tmp == B64Encode(HashDigest(h))
    IN IF tmp.len = 24 /\ tmp.pad = 2 THEN [tmp EXCEPT !.len = 22, !.pad = 0] ELSE tmp

\* a reader of the file and its generator: offset, hash state, value returned
NewReader == [pos |-> 0, hash |-> HashNew, done |-> FALSE,
              value |-> [len |-> 0, pad |-> 0, of |-> <<>>]]

\* one round of the read loop: a non-empty chunk is sent to the generator,
\* the empty chunk at the end of the file ends the loop and the generator
\* is sent None, which makes it return
ReadLoop(r, content, n) ==
    LET chunk == FileRead(content, r.pos, n)
    IN IF chunk # <<>>
       THEN [r EXCEPT !.pos = @ + Len(chunk), !.hash = HashUpdate(@, chunk)]
       ELSE [r EXCEPT !.done = TRUE, !.value = Md5GeneratorReturn(r.hash)]

Md5Init ==
    /\ disk \in Contents
    /\ xml = [d \in Dirs |-> <<>>]
    /\ db = <<>>
    /\ committed = <<>>
    /\ todo = <<>>
    /\ sess = Idle
    /\ hist = [sync |-> NewReader, async |-> NewReader]
    /\ budget = [env |-> 0, cmds |-> 0, crash |-> 0]

\* calculate_md5: iter(lambda: f.read(4096), b"")
CalculateMd5Step ==
    /\ ~hist.sync.done
    /\ hist' = [hist EXCEPT !.sync = ReadLoop(@, disk, SyncChunk)]
    /\ UNCHANGED <<disk, xml, db, committed, todo, sess, budget>>

\* async_calculate_md5: while chunk := await file.read(8192)
AsyncCalculateMd5Step ==
    /\ ~hist.async.done
    /\ hist' = [hist EXCEPT !.async = ReadLoop(@, disk, AsyncChunk)]
    /\ UNCHANGED <<disk, xml, db, committed, todo, sess, budget>>

Md5Next ==
    \/ CalculateMd5Step
    \/ AsyncCalculateMd5Step

SpecMd5 == Md5Init /\ [][Md5Next]_vars

\* C18: for every content the buffered and the streaming fingerprinter
\* return the same value, and it is the base64 text of the MD5 digest of the
\* whole content without its two padding characters, 22 characters long.
C18_SameFingerprint ==
    (hist.sync.done /\ hist.async.done) =>
        /\ hist.sync.value = hist.async.value
        /\ hist.sync.value = [len |-> 22, pad |-> 0, of |-> disk]

C18_UnevenLength ==
    /\ hist.sync.done /\ hist.async.done
    /\ Len(disk) > AsyncChunk
    /\ Len(disk) % SyncChunk # 0 /\ Len(disk) % AsyncChunk # 0
    /\ hist.sync.value.len = 22

----------------------------------------------------------------------------
(* VolumeIdSrc of volume_id/volume_id.py.  Here disk gives, per
   destination root, the marker file .bkp_id: whether it exists and its
   text; sess gives the _volume_id cached by the VolumeIdSrc instance in
   use for each root *)

MaxCalls == 3

VolumeRoots == {"m1", "m2"}
\* values uuid4 can produce
Uuids == {"u1", "u2", "u3"}

NoMarker == [exists |-> FALSE, text |-> ""]
Marker(text) == [exists |-> TRUE, text |-> text]
NoVolumeId == "None"

\* str.strip() on the texts that occur
Strip(text) == IF text = "u1\n" THEN "u1" ELSE text

\* VolumeIdSrc.validate_uuid
ValidateUuid(id) == id \in Uuids

\* variant of the dest_id_file.exists() test that never finds the file
MarkerNeverExists(m) == FALSE

\* dest_id_file.exists()
MarkerExists(m) == m.exists

\* what opening the marker for writing and writing the id can do: the id is
\* written; open fails and no file is made; the file is made and the write
\* fails
WriteOutcomes == {"ok", "noopen", "nowrite"}

\* VolumeIdSrc.read_or_create_dest_id on a marker, with the id uuid4 would
\* give and the outcome a write would have: marker afterwards, identifier
\* set, exception raised, whether create_dest_id was called
ReadOrCreate(m, fresh, wr) ==
    IF MarkerExists(m)
    THEN IF ValidateUuid(Strip(m.text))
         THEN [marker |-> m, id |-> Strip(m.text), raised |-> "", created |-> FALSE]
         ELSE [marker |-> m, id |-> NoVolumeId, raised |-> "AssertionError", created |-> FALSE]
    ELSE CASE wr = "ok" ->
                [marker |-> Marker(fresh), id |-> fresh, raised |-> "", created |-> TRUE]
           [] wr = "noopen" ->
                [marker |-> NoMarker, id |-> NoVolumeId, raised |-> "DestIdException",
                 created |-> TRUE]
           [] OTHER ->
                [marker |-> Marker(""), id |-> NoVolumeId, raised |-> "DestIdException",
                 created |-> TRUE]

NoCall == [op |-> "none", root |-> "", pre |-> NoMarker, id |-> NoVolumeId,
           raised |-> "", created |-> FALSE, cached |-> FALSE]

VolumeInit ==
    /\ disk \in [VolumeRoots -> {NoMarker, Marker("u1\n")}]
    /\ xml = [d \in Dirs |-> <<>>]
    /\ db = <<>>
    /\ committed = <<>>
    /\ todo = <<>>
    /\ sess = [r \in VolumeRoots |-> NoVolumeId]
    /\ hist = NoCall
    /\ budget = [env |-> 0, cmds |-> MaxCalls, crash |-> 0]

\* VolumeIdSrc(path): a new instance, in this run or a later one
NewVolumeIdSrc(root) ==
    /\ sess[root] # NoVolumeId
    /\ sess' = [sess EXCEPT ![root] = NoVolumeId]
    /\ hist' = NoCall
    /\ UNCHANGED <<disk, xml, db, committed, todo, budget>>

\* await read_or_create_dest_id()
ReadOrCreateDestId(root, fresh, wr) ==
    /\ budget.cmds > 0
    /\ LET r == ReadOrCreate(disk[root], fresh, wr)
       IN /\ disk' = [disk EXCEPT ![root] = r.marker]
          /\ sess' = [sess EXCEPT ![root] = IF r.raised = "" THEN r.id ELSE @]
          /\ hist' = [op |-> "read", root |-> root, pre |-> disk[root], id |-> r.id,
                      raised |-> r.raised, created |-> r.created, cached |-> FALSE]
    /\ budget' = [budget EXCEPT !.cmds = @ - 1]
    /\ UNCHANGED <<xml, db, committed, todo>>

\* await avolume_id on an instance that has its identifier already
AVolumeId(root) ==
    /\ budget.cmds > 0
    /\ sess[root] # NoVolumeId
    /\ hist' = [op |-> "read", root |-> root, pre |-> disk[root], id |-> sess[root],
                raised |-> "", created |-> FALSE, cached |-> TRUE]
    /\ budget' = [budget EXCEPT !.cmds = @ - 1]
    /\ UNCHANGED <<disk, xml, db, committed, todo, sess>>

VolumeNext ==
    \/ \E root \in VolumeRoots : NewVolumeIdSrc(root)
    \/ \E root \in VolumeRoots, fresh \in Uuids, wr \in WriteOutcomes :
          ReadOrCreateDestId(root, fresh, wr)
    \/ \E root \in VolumeRoots : AVolumeId(root)

SpecVolume == VolumeInit /\ [][VolumeNext]_vars

\* C19: a read of the identifier of a destination whose marker file exists
\* leaves the file as it is, generates no identifier, and, when the file
\* holds an identifier, returns that identifier; an identifier is generated
\* only when there is no marker file.
C19_MarkerReadNeverRewritten ==
    hist.op = "read" =>
        /\ hist.pre.exists =>
              /\ disk[hist.root] = hist.pre
              /\ ~hist.created
              /\ ValidateUuid(Strip(hist.pre.text)) =>
                    (hist.raised = "" /\ hist.id = Strip(hist.pre.text))
              /\ hist.raised = "" => hist.id = Strip(hist.pre.text)
        /\ hist.created => ~hist.pre.exists

C19_ReadBackWrittenId ==
    /\ hist.op = "read" /\ ~hist.cached /\ budget.cmds = 0
    /\ hist.pre.exists /\ hist.pre.text \in Uuids
    /\ hist.id = hist.pre.text
    /\ sess[hist.root] = hist.id
    /\ \E other \in VolumeRoots \ {hist.root} :
          disk[other].exists /\ Strip(disk[other].text) # hist.id

----------------------------------------------------------------------------
(* medback discover: discovery of the files found on a destination, then
   writeback_db_file_entries; run between medback update commands on the
   state of the backup runners *)

\* str(Path) of a relative filename: the components joined by "/"
RECURSIVE PathStr(_)
PathStr(rel) ==
    IF Len(rel) = 1 THEN rel[1] ELSE rel[1] \o "/" \o PathStr(Tail(rel))

\* files found on the destination by the walk of medback discover
ObservedOnTarget == { [name |-> "a", md5 |-> Md5(1)], [name |-> "b", md5 |-> Md5(2)] }

\* writeback_db_file_entries.update_file_entry: the sidecar of src_path,
\* the record keyed by the relative filename
WritebackUpdateFileEntry(docs, r) ==
    LET dir_path == <<r.src_path>>
        filename == PathStr(r.filename)
        file_bob == [GetItem(docs[dir_path], dir_path, filename) EXCEPT
                       !.bkp_dests = r.dests, !.md5 = r.md5_hash,
                       !.size = r.size, !.mtime = r.timestamp.dt]
    IN [docs EXCEPT ![dir_path] = SetItem(@, filename, file_bob)]

\* writeback_db_file_entries: every row with visited != 0, in rowid order
RECURSIVE WritebackDbFileEntries(_, _)
WritebackDbFileEntries(docs, rows) ==
    IF rows = <<>> THEN docs
    ELSE WritebackDbFileEntries(
             IF Head(rows).visited # 0 THEN WritebackUpdateFileEntry(docs, Head(rows))
             ELSE docs,
             Tail(rows))

\* medback discover
StartDiscover(d, files) ==
    /\ files # {}
    /\ Begin("discover", d, <<Step("discovery", files), Step("writeback", "")>>)

\* Bdsa.discovery with the files found on the destination
DoDiscovery ==
    /\ NextStep("discovery")
    /\ db' = Discovery(db, Head(todo).arg, sess.dest)
    /\ hist' = [hist EXCEPT !.phase = "discovered",
                            !.pre = [db |-> db, xml |-> xml],
                            !.selected = {RowPath(db[i]) : i \in
                                            {k \in 1..Len(db) : db'[k] # db[k]}}]
    /\ todo' = Tail(todo)
    /\ UNCHANGED <<disk, xml, committed, sess, budget>>

\* writeback_db_file_entries, the sidecars committed by the manager
DoWriteback ==
    /\ NextStep("writeback")
    /\ xml' = WritebackDbFileEntries(xml, db)
    /\ hist' = [hist EXCEPT !.phase = "writtenback"]
    /\ todo' = Tail(todo)
    /\ UNCHANGED <<disk, db, committed, sess, budget>>

DiscoverNext ==
    \/ \E f \in Files, st \in Stats : WriteFile(f, st)
    \/ \E sel \in SUBSET SourceSet : StartUpdate(sel)
    \/ \E d \in Dests, files \in SUBSET ObservedOnTarget : StartDiscover(d, files)
    \/ DoSync
    \/ DoSweep
    \/ DoDiscovery
    \/ DoWriteback
    \/ Close

SpecDiscover == Init /\ [][DiscoverNext]_vars

\* C21: after discovery and writeback_db_file_entries, every file whose
\* FileEntry discovery tagged has the destination in the record under its
\* base name in the sidecar of the directory that holds it, at any depth
\* below the source root.
C21_WritebackReachesOwnSidecar ==
    hist.phase = "writtenback" =>
        \A f \in hist.selected \cap DOMAIN disk :
            sess.dest \in SidecarRecord(xml, f).bkp_dests

\* the same for the files located directly in their source root
C21_WritebackOfRootFiles ==
    hist.phase = "writtenback" =>
        \A f \in hist.selected \cap DOMAIN disk :
            Len(f) = 2 => sess.dest \in SidecarRecord(xml, f).bkp_dests

\* ------------------------------------------------------------------
\* Further properties of the runners (specification Spec)

\* C22: the visited flags are cleared at the end of every session, whether
\* it ends normally or by a failure: whenever no session is open, no
\* persisted FileEntry carries visited != 0.
C22_SessionStartsClean ==
    sess = Idle => \A i \in 1..Len(committed) : committed[i].visited = 0

\* the same for the sessions that end normally
C22_CleanAfterNormalExit ==
    [][Close => \A i \in 1..Len(committed') : committed'[i].visited = 0]_vars

C24_SyncMirrorsSidecarRecord ==
    hist.phase = "synced" =>
        \A f \in DOMAIN disk : f[1] = hist.lastSync =>
            /\ f \in Tracked(db)
            /\ LET r == RowOf(db, f)
                   bf == SidecarRecord(xml, f)
               IN /\ r.size = bf.size
                  /\ r.timestamp = FromTimestamp(bf.mtime)
                  /\ r.md5_hash = bf.md5 /\ bf.md5 # NoMd5
                  /\ r.dests = bf.bkp_dests
                  /\ r.visited = 1

\* the walk took a destination away from a FileEntry that carried it
C24_ExtraDestRemoved ==
    /\ hist.phase = "synced"
    /\ \E f \in DOMAIN disk, i \in 1..Len(hist.pre.db) :
          /\ f[1] = hist.lastSync
          /\ hist.pre.db[i].filename = RelativeTo(f, hist.lastSync)
          /\ hist.pre.db[i].dests \ SidecarRecord(xml, f).bkp_dests # {}
          /\ RowOf(db, f).dests = SidecarRecord(xml, f).bkp_dests

-----------------------------------------------------------------------------
(* Destination rows under concurrent visitor callbacks: the callbacks of   *)
(* the files of one directory run as coroutines of one asyncio.gather and  *)
(* share one session; every statement is executed under the wrapper's lock *)
(* and flushes the session first. Here                                     *)
(*   xml        the bkp_dests of the sidecar record of every file          *)
(*   disk       which files already have a FileEntry                       *)
(*   db         the session: Destination rows of the open transaction,     *)
(*              pending Destination objects, failed flag, next object id   *)
(*   committed  the Destination rows of the last commit                    *)
(*   todo       the position and the locals of every callback              *)

DestFiles == {"f1", "f2", "f3"}
RecordDests == {{}, {"A"}, {"A", "B"}}
FirstOid == 10

Destination(oid, name) == [oid |-> oid, name |-> name]

\* variant without the unique constraint on the name
NoUniqueViolation(rows, pending) == FALSE

\* BackupDest.name is declared unique: inserting the pending objects fails
\* when a name is already a row or is carried by two of them
UniqueViolation(rows, pending) ==
    \E p \in pending : \E q \in (rows \cup pending) \ {p} : q.name = p.name

\* the session's autoflush before a statement, and the flush of a commit:
\* the pending objects become rows; an IntegrityError rolls the
\* transaction back and leaves the session unusable
Flush(s) ==
    IF s.pending = {} THEN s
    ELSE IF UniqueViolation(s.rows, s.pending)
         THEN [s EXCEPT !.failed = TRUE, !.pending = {}, !.rows = committed]
         ELSE [s EXCEPT !.rows = @ \cup s.pending, !.pending = {}]

Callback(pc, left, tags) == [pc |-> pc, left |-> left, tags |-> tags]

DestInit ==
    /\ xml \in [DestFiles -> RecordDests]
    /\ disk \in {[f \in DestFiles |-> FALSE], [f \in DestFiles |-> f = "f1"]}
    /\ committed \in {{}, {Destination(1, "B")}}
    /\ db = [rows |-> committed, pending |-> {}, failed |-> FALSE, next |-> FirstOid]
    /\ todo = [f \in DestFiles |-> Callback("file", {}, {})]
    /\ sess = "walk"
    /\ hist = [created |-> {}, links |-> [f \in DestFiles |-> {}],
               before |-> committed, phase |-> "walking"]
    /\ budget = 0

\* where update_file goes once the tags are fetched
AfterTags(f) == IF disk[f] THEN "refetch" ELSE "attach"

\* a statement met the failed session
Raise(f, s) ==
    /\ db' = s
    /\ todo' = [todo EXCEPT ![f].pc = "raised"]
    /\ UNCHANGED <<disk, xml, committed, sess, hist, budget>>

\* update_file: aquery_one(BackupFile, filename == ...)
DestQueryFile(f) ==
    /\ todo[f].pc = "file" /\ ~db.failed
    /\ LET s == Flush(db)
       IN IF s.failed THEN Raise(f, s)
          ELSE /\ db' = s
               /\ todo' = [todo EXCEPT ![f] =
                             IF xml[f] = {} THEN Callback(AfterTags(f), {}, {})
                             ELSE Callback("tags", xml[f], {})]
               /\ UNCHANGED <<disk, xml, committed, sess, hist, budget>>

\* aquery_many.my_task of _query_dest_tags: the row of that name, or a new
\* BackupDest object from on_fail
DestQueryTag(f, d) ==
    /\ todo[f].pc = "tags" /\ d \in todo[f].left /\ ~db.failed
    /\ LET s == Flush(db)
           found == {r \in s.rows : r.name = d}
           tag == IF found # {} THEN CHOOSE r \in found : TRUE
                  ELSE Destination(s.next, d)
           left == todo[f].left \ {d}
       IN IF s.failed THEN Raise(f, s)
          ELSE /\ db' = [s EXCEPT !.next = IF found = {} THEN @ + 1 ELSE @]
               /\ todo' = [todo EXCEPT ![f] =
                             Callback(IF left = {} THEN AfterTags(f) ELSE "tags",
                                      left, todo[f].tags \cup {tag})]
               /\ hist' = [hist EXCEPT !.created =
                             IF found = {} THEN @ \cup {tag} ELSE @]
               /\ UNCHANGED <<disk, xml, committed, sess, budget>>

\* update_file, entry found: the second aquery_one(BackupFile, ...)
DestRefetch(f) ==
    /\ todo[f].pc = "refetch" /\ ~db.failed
    /\ LET s == Flush(db)
       IN IF s.failed THEN Raise(f, s)
          ELSE /\ db' = s
               /\ todo' = [todo EXCEPT ![f].pc = "attach"]
               /\ UNCHANGED <<disk, xml, committed, sess, hist, budget>>

\* update_file: entry.backup_dest = fetched_tags and, for a new entry,
\* session.add(entry); the new objects of the list join the session
DestAttach(f) ==
    /\ todo[f].pc = "attach" /\ ~db.failed
    /\ db' = [db EXCEPT !.pending = @ \cup (todo[f].tags \ db.rows)]
    /\ todo' = [todo EXCEPT ![f].pc = "done"]
    /\ hist' = [hist EXCEPT !.links[f] = todo[f].tags]
    /\ UNCHANGED <<disk, xml, committed, sess, budget>>

\* go_walk: every callback has returned; on_dir_close commits the session
DestCommit ==
    /\ hist.phase = "walking"
    /\ \A f \in DestFiles : todo[f].pc = "done"
    /\ LET s == Flush(db)
       IN /\ db' = s
          /\ committed' = IF s.failed THEN committed ELSE s.rows
          /\ hist' = [hist EXCEPT !.phase = IF s.failed THEN "raised" ELSE "committed"]
    /\ UNCHANGED <<disk, xml, todo, sess, budget>>

DestNext ==
    \/ \E f \in DestFiles : DestQueryFile(f)
    \/ \E f \in DestFiles, d \in Dests : DestQueryTag(f, d)
    \/ \E f \in DestFiles : DestRefetch(f)
    \/ \E f \in DestFiles : DestAttach(f)
    \/ DestCommit

SpecDest == DestInit /\ [][DestNext]_vars

RowsNamed(rows, d) == {r \in rows : r.name = d}

\* C25: under every interleaving of the callbacks of the files of one
\* directory, the Central Index never holds two Destination rows with the
\* same id, neither in the open transaction nor after a commit.
C25_OneRowPerDestinationId ==
    \A d \in Dests : /\ Cardinality(RowsNamed(db.rows, d)) <= 1
                     /\ Cardinality(RowsNamed(committed, d)) <= 1

\* two callbacks whose records carry the same new id end on one shared row
C25_SharedNewIdOneRow ==
    /\ hist.phase = "committed"
    /\ RowsNamed(hist.before, "A") = {}
    /\ Cardinality(RowsNamed(committed, "A")) = 1
    /\ \E f, g \in DestFiles :
          /\ f # g /\ "A" \in xml[f] \cap xml[g]
          /\ RowsNamed(hist.links[f], "A") = RowsNamed(committed, "A")
          /\ RowsNamed(hist.links[g], "A") = RowsNamed(committed, "A")

\* two callbacks each made an object for the same new id: the flush that
\* meets both raises IntegrityError and the walk fails
C25_SecondObjectRejected ==
    /\ db.failed
    /\ \E p, q \in hist.created : p # q /\ p.name = q.name

\* the walk completes only when no two objects were made for one id
C25_CompletesOnlyWithoutDuplicates ==
    hist.phase = "committed" =>
        \A p, q \in hist.created : p.name = q.name => p = q

-----------------------------------------------------------------------------
(* The copy phase task by task: copy_best_files makes one asyncio task per *)
(* selected FileEntry and gathers them; the tasks interleave at their      *)
(* awaits. Here                                                            *)
(*   db    the FileEntries                                                 *)
(*   todo  the position of the _backup_file task of every FileEntry        *)
(*   sess  the position of the command, the selection, the next entry to   *)
(*         get a task, the rows update_source_directory_entries queried    *)
(*   xml   src: files whose source sidecar lists the destination;          *)
(*         mem / file: the records of the destination sidecar in memory    *)
(*         and on disk                                                     *)
(*   disk  the files present in the destination tree                       *)

CopyDest == "A"
CopySizes == [small |-> 1, big |-> 3, mid |-> 2]
CopyNames == <<"small", "big", "mid">>

CopyRow(n) == [filename |-> <<n>>, src_path |-> "s1", size |-> CopySizes[n],
               timestamp |-> FromTimestamp(1), md5_hash |-> Md5(1),
               visited |-> 0, dests |-> {}]

PrepareOutcomes == {"go", "nodir", "error"}
CopyOutcomes == {"ok", "io", "error"}
Finished == {"done", "raised"}

CopyInit ==
    /\ db = [i \in 1..Len(CopyNames) |-> CopyRow(CopyNames[i])]
    /\ xml \in {[src |-> s, mem |-> {}, file |-> {}] : s \in {{}, {"mid"}}}
    /\ disk = {}
    /\ committed = db
    /\ todo = [i \in 1..Len(CopyNames) |-> "none"]
    /\ \E q \in ForBackup(db, CopyDest) :
          sess = [pc |-> "creating", q |-> q, next |-> 1, vis |-> {}]
    /\ hist = [started |-> <<>>, late |-> {}, running |-> {}]
    /\ budget = 0

\* copy_best_files: asyncio.create_task for the next selected entry; after
\* the last one the command awaits asyncio.gather
CreateTask ==
    /\ sess.pc = "creating"
    /\ todo' = [todo EXCEPT ![sess.q[sess.next]] = "created"]
    /\ sess' = [sess EXCEPT !.next = @ + 1,
                            !.pc = IF sess.next = Len(sess.q) THEN "gather" ELSE @]
    /\ UNCHANGED <<disk, xml, db, committed, hist, budget>>

\* _backup_file up to the copy: the checks, mkdir and the two init_structs;
\* an exception raised here is not caught by the task
TaskPrepare(i, o) ==
    /\ todo[i] = "created"
    /\ todo' = [todo EXCEPT ![i] =
                  IF db[i].visited # 0 \/ o = "error" THEN "raised"
                  ELSE IF o = "nodir" \/ Name(RowPath(db[i])) \in xml.src THEN "done"
                  ELSE "ready"]
    /\ UNCHANGED <<disk, xml, db, committed, sess, hist, budget>>

\* _backup_file from the copy on: async_copy_file, then the destination
\* sidecar record and file_entry.visited = 1; IOError returns, a failed
\* assert raises
TaskCopy(i, o) ==
    /\ todo[i] = "ready"
    /\ LET n == Name(RowPath(db[i]))
           after == sess.pc \in {"committed", "propagating", "propagated"}
       IN /\ todo' = [todo EXCEPT ![i] = IF o = "error" THEN "raised" ELSE "done"]
          /\ disk' = IF o = "ok" THEN disk \cup {n} ELSE disk
          /\ xml' = IF o = "ok" THEN [xml EXCEPT !.mem = @ \cup {n}] ELSE xml
          /\ db' = IF o = "ok" THEN [db EXCEPT ![i].visited = 1] ELSE db
          /\ hist' = [hist EXCEPT
                        !.started = IF o = "error" THEN @ ELSE Append(@, i),
                        !.late = IF o = "ok" /\ after THEN @ \cup {i} ELSE @]
    /\ UNCHANGED <<committed, sess, budget>>

\* copy_best_files: asyncio.gather returns when every task has finished,
\* or raises as soon as one task has raised; the exception is logged and
\* copy_best_files returns
GatherReturns ==
    /\ sess.pc = "gather"
    /\ \/ \A i \in DOMAIN todo : todo[i] \in Finished
       \/ \E i \in DOMAIN todo : todo[i] = "raised"
    /\ sess' = [sess EXCEPT !.pc = "returned"]
    /\ hist' = [hist EXCEPT !.running = {i \in DOMAIN todo : todo[i] \notin Finished}]
    /\ UNCHANGED <<disk, xml, db, committed, todo, budget>>

\* AsyncBkpXmlManager.__aexit__: every sidecar of the manager is written
ManagerExit ==
    /\ sess.pc = "returned"
    /\ xml' = [xml EXCEPT !.file = xml.mem]
    /\ sess' = [sess EXCEPT !.pc = "committed"]
    /\ UNCHANGED <<disk, db, committed, todo, hist, budget>>

\* update_source_directory_entries: the query for the rows with visited != 0
PropagateQuery ==
    /\ sess.pc = "committed"
    /\ sess' = [sess EXCEPT !.pc = "propagating",
                            !.vis = {i \in DOMAIN db : db[i].visited # 0}]
    /\ UNCHANGED <<disk, xml, db, committed, todo, hist, budget>>

\* update_source_directory_entries: update_file_entry for every row found
PropagateRows ==
    /\ sess.pc = "propagating"
    /\ db' = [i \in DOMAIN db |->
                IF i \in sess.vis THEN AddTagObjToBackupFile(db[i], CopyDest) ELSE db[i]]
    /\ xml' = [xml EXCEPT !.src = @ \cup {Name(RowPath(db[i])) : i \in sess.vis}]
    /\ sess' = [sess EXCEPT !.pc = "propagated"]
    /\ UNCHANGED <<disk, committed, todo, hist, budget>>

CopyNext ==
    \/ CreateTask
    \/ \E i \in 1..Len(CopyNames), o \in PrepareOutcomes : TaskPrepare(i, o)
    \/ \E i \in 1..Len(CopyNames), o \in CopyOutcomes : TaskCopy(i, o)
    \/ GatherReturns
    \/ ManagerExit
    \/ PropagateQuery
    \/ PropagateRows

SpecCopy == CopyInit /\ [][CopyNext]_vars

Returned == sess.pc \notin {"creating", "gather"}

\* C26: once copy_best_files has returned, every task it started has
\* finished, also when a task failed with an exception that is not an I/O
\* failure.
C26_TasksFinishedAtReturn ==
    Returned => \A i \in DOMAIN todo : todo[i] \in Finished

\* no task writes a destination sidecar record or sets visited after the
\* sidecar manager has committed
C26_NoRecordAfterCommit == hist.late = {}

\* when no task raises, every task has finished at the return
C26_FinishedWhenNoTaskRaises ==
    (Returned /\ \A i \in DOMAIN todo : todo[i] # "raised") =>
        \A i \in DOMAIN todo : todo[i] = "done"

\* C28: within one copy phase the copies start largest first: no copy
\* starts before the copy of a larger selected file has started, under
\* every interleaving of the tasks.
C28_CopiesStartLargestFirst ==
    \A k, l \in 1..Len(hist.started) :
        k < l => db[hist.started[k]].size >= db[hist.started[l]].size

\* the tasks themselves are created largest first
C28_TasksCreatedLargestFirst ==
    \A k, l \in 1..Len(sess.q) :
        (k < l /\ todo[sess.q[l]] # "none") =>
            /\ todo[sess.q[k]] # "none"
            /\ db[sess.q[k]].size >= db[sess.q[l]].size

-----------------------------------------------------------------------------
(* The sweep and a failed walk (specification Spec) *)

Filenames(rows) == {rows[i].filename : i \in 1..Len(rows)}

\* C27: in a command where the walk of a source has failed, the sweep does
\* not run and no persisted FileEntry is deleted: the command stops at the
\* failure and every persisted row is still among the session's rows.
C27_NoSweepAfterFailedWalk ==
    hist.failed =>
        /\ hist.phase = "syncfailed"
        /\ Filenames(committed) \subseteq Filenames(db)

\* a walk failed in a command that holds a row the sweep would delete
C27_FailedWalkWithStaleRow ==
    /\ hist.failed /\ sess.kind \in {"update", "backup"}
    /\ \E i \in 1..Len(db) : db[i].visited = 0 /\ RowPath(db[i]) \notin DOMAIN disk
    /\ \E i \in 1..Len(committed) : RowPath(committed[i]) \notin DOMAIN disk

-----------------------------------------------------------------------------
(* Destination paths of the copies (specification Spec) *)

\* the registered source roots; both end in the same component
SourceRoot(s) == IF s = "s1" THEN <<"x", "photos">> ELSE <<"y", "photos">>

\* generate_src_dest_full_paths: dest_path / Path(src_path).name /
\* relative filename
GenerateSrcDestFullPaths(r, dest) ==
    <<dest, Name(SourceRoot(r.src_path))>> \o r.filename

\* the files whose copy was invoked in the copy phase
CopiedFiles == {f \in Files : hist.copied[f] > 0}
DestPathOf(f) == GenerateSrcDestFullPaths(RowOf(hist.pre.db, f), sess.dest)

\* C29: in one copy phase no two FileEntries are copied to the same
\* destination path, also when their sources' roots end in the same
\* component.
C29_DistinctDestinationPaths ==
    AfterCopy =>
        \A f, g \in CopiedFiles : f # g => DestPathOf(f) # DestPathOf(g)

\* files of two sources whose roots share the final component are copied
\* in one phase
C29_TwoSourcesOneComponent ==
    /\ AfterCopy
    /\ \E f, g \in CopiedFiles :
          /\ f[1] # g[1]
          /\ Name(SourceRoot(f[1])) = Name(SourceRoot(g[1]))
          /\ DestPathOf(f) # DestPathOf(g)

-----------------------------------------------------------------------------
(* One directory of the walk, task by task: the visit_file coroutines of   *)
(* its files are gathered in _visit_files_and_dirs, then walk creates and  *)
(* gathers the callbacks. Here                                             *)
(*   disk  the stat and content of every file of the directory             *)
(*   xml   the directory's sidecar document in memory                      *)
(*   todo  the position of the visit_file coroutine of every file          *)
(*   sess  the position of walk(current_path)                              *)
(*   hist  the files hashed and the files whose callback was invoked       *)

BarrierNames == {"a", "b", "c"}
BarrierFile(n) == Append(VisitDir, n)
BarrierStat == [size |-> 2, mtime |-> 1, data |-> 1]

\* an fr element as an earlier walk left it: current, or of an older mtime
FrElement(n, mtime) ==
    [fname |-> n, mtime |-> mtime, size |-> 2, checksum |-> Md5(mtime), bd |-> {}]

BarrierDocs ==
    {SelectSeq(<<FrElement("a", ma), FrElement("b", mb), FrElement("c", mc)>>,
               LAMBDA e : e.mtime # 0) : ma \in {0, 1, 2}, mb \in {0, 1, 2}, mc \in {0, 1}}

BarrierInit ==
    /\ disk = [f \in {BarrierFile(n) : n \in BarrierNames} |-> BarrierStat]
    /\ xml \in {[d \in {VisitDir} |-> doc] : doc \in BarrierDocs}
    /\ db = <<>>
    /\ committed = <<>>
    /\ todo = [n \in BarrierNames |-> "created"]
    /\ sess = "visiting"
    /\ hist = [hashed |-> {}, called |-> {}]
    /\ budget = 0

\* visit_file up to its await: the fast path ends at once, the other one
\* awaits the fingerprint
VisitStarts(n) ==
    /\ todo[n] = "created"
    /\ todo' = [todo EXCEPT ![n] =
                  IF VisitRecomputes(xml[VisitDir], VisitDir, n, disk[BarrierFile(n)])
                  THEN "hashing" ELSE "visited"]
    /\ UNCHANGED <<disk, xml, db, committed, sess, hist, budget>>

\* visit_file after async_calculate_md5: size, mtime and md5 are stored
VisitEnds(n) ==
    /\ todo[n] = "hashing"
    /\ xml' = [xml EXCEPT ![VisitDir] = VisitFile(@, VisitDir, n, disk[BarrierFile(n)])]
    /\ todo' = [todo EXCEPT ![n] = "visited"]
    /\ hist' = [hist EXCEPT !.hashed = @ \cup {n}]
    /\ UNCHANGED <<disk, db, committed, sess, budget>>

\* variant of the gather that returns with the first finished visit
AnyVisitDone == \E n \in BarrierNames : todo[n] = "visited"

\* asyncio.gather(*file_processing_tasks): every visit_file has returned
VisitsDone == \A n \in BarrierNames : todo[n] = "visited"

\* _visit_files_and_dirs returns to walk
VisitsGathered ==
    /\ sess = "visiting" /\ VisitsDone
    /\ sess' = "callbacks"
    /\ UNCHANGED <<disk, xml, db, committed, todo, hist, budget>>

\* walk: callback(current_path, entry, stat_result_i, bkp_xml) for a file
CallbackInvoked(n) ==
    /\ sess = "callbacks" /\ n \notin hist.called
    /\ hist' = [hist EXCEPT !.called = @ \cup {n}]
    /\ UNCHANGED <<disk, xml, db, committed, todo, sess, budget>>

\* walk: the callbacks are gathered, then bkp_xml.commit()
BarrierCommit ==
    /\ sess = "callbacks" /\ hist.called = BarrierNames
    /\ sess' = "committed"
    /\ UNCHANGED <<disk, xml, db, committed, todo, hist, budget>>

BarrierNext ==
    \/ \E n \in BarrierNames : VisitStarts(n)
    \/ \E n \in BarrierNames : VisitEnds(n)
    \/ VisitsGathered
    \/ \E n \in BarrierNames : CallbackInvoked(n)
    \/ BarrierCommit

SpecBarrier == BarrierInit /\ [][BarrierNext]_vars

\* the document holds a record of the file with a fingerprint and the
\* file's current size and mtime
RecordComplete(n) ==
    \E i \in 1..Len(xml[VisitDir]) :
        LET e == xml[VisitDir][i]
        IN /\ e.fname = n /\ e.checksum # NoMd5
           /\ e.size = disk[BarrierFile(n)].size
           /\ e.mtime = disk[BarrierFile(n)].mtime

\* C30: when the callback of any file of a directory is invoked, the
\* visit_file of every file of that directory has returned and every
\* record carries a fingerprint and the current size and mtime.
C30_VisitsCompleteBeforeCallbacks ==
    hist.called # {} =>
        \A n \in BarrierNames : todo[n] = "visited" /\ RecordComplete(n)

\* callbacks run in a directory where visits had to fingerprint files
C30_CallbackAfterFingerprinting ==
    /\ hist.called # {} /\ hist.called # BarrierNames
    /\ Cardinality(hist.hashed) >= 2

-----------------------------------------------------------------------------
(* Further properties of the walker (specification SpecWalk) *)

TrackedNames(doc) == {doc[i].fname : i \in 1..Len(doc)}

\* C31: once the walker has processed a directory, the names tracked by
\* the directory's sidecar document are exactly the names of the regular
\* files found in it: stale records are gone, every file has a record.
C31_TrackedNamesAreObservedFiles ==
    \A dir \in hist.closed :
        TrackedNames(xml[dir]) = {Name(f) : f \in FileEntries(dir)}

\* a directory whose document held the record of a deleted file was
\* processed and still has files
C31_StaleRecordPruned ==
    \E dir \in hist.closed \cap hist.pruned :
        /\ FileEntries(dir) # {}
        /\ "gone" \notin TrackedNames(xml[dir])

-----------------------------------------------------------------------------
(* The walker's outstanding-task counter and its throttle: every walk of a *)
(* directory is a coroutine; the ceiling of the source (200) is scaled     *)
(* down. Here                                                              *)
(*   disk  the number of regular files of every directory                  *)
(*   todo  the walk of every directory: position, subdirectories not yet   *)
(*         looked at, subdirectories dispatched as tasks and of these the  *)
(*         ones already counted down                                       *)
(*   sess  the walker: _counter and whether go_walk has returned           *)
(*   xml   the directories whose sidecar was committed                     *)

Ceiling == 1

ThrottleDirs == {"r", "d1", "d2", "e1", "e2"}
SubDirs(d) == IF d = "r" THEN <<"d1", "d2">>
              ELSE IF d = "d1" THEN <<"e1", "e2">> ELSE <<>>

WalkState(pc, left, tasks, joined) ==
    [pc |-> pc, left |-> left, tasks |-> tasks, joined |-> joined]
NotStarted == WalkState("none", <<>>, {}, {})

\* variant of _incr_cnt that leaves the counter alone
IncrCntLost(c, val) == c

\* _incr_cnt
IncrCnt(c, val) == c + val

\* variant of _decr_cnt that leaves the counter alone
DecrCntLost(c, val) == c

\* _decr_cnt
DecrCnt(c, val) == c - val

ThrottleInit ==
    /\ disk \in [ThrottleDirs -> {0, 1}]
    /\ xml = {}
    /\ db = <<>>
    /\ committed = <<>>
    /\ todo = [d \in ThrottleDirs |-> NotStarted]
    /\ sess = [counter |-> 0, returned |-> FALSE]
    /\ hist = [peak |-> 0, inline |-> {}]
    /\ budget = 0

Counted(c) == [hist EXCEPT !.peak = IF c > @ THEN c ELSE @]

\* go_walk: await walk(walk_path)
GoWalkRoot ==
    /\ todo["r"].pc = "none" /\ ~sess.returned
    /\ todo' = [todo EXCEPT !["r"].pc = "started"]
    /\ UNCHANGED <<disk, xml, db, committed, sess, hist, budget>>

\* walk: the files are visited, the callbacks are created and counted
WalkCallbacks(d) ==
    /\ todo[d].pc = "started"
    /\ sess' = [sess EXCEPT !.counter = IncrCnt(@, disk[d])]
    /\ hist' = Counted(sess'.counter)
    /\ todo' = [todo EXCEPT ![d].pc = "callbacks"]
    /\ UNCHANGED <<disk, xml, db, committed, budget>>

\* walk: the callbacks are gathered and counted down, the sidecar is
\* committed
WalkCommit(d) ==
    /\ todo[d].pc = "callbacks"
    /\ sess' = [sess EXCEPT !.counter = DecrCnt(@, disk[d])]
    /\ xml' = xml \cup {d}
    /\ todo' = [todo EXCEPT ![d] = WalkState("loop", SubDirs(d), {}, {})]
    /\ UNCHANGED <<disk, db, committed, hist, budget>>

\* walk: the loop over dir_entries with the counter above the ceiling:
\* await walk(entry) for the next subdirectory
WalkInline(d) ==
    /\ todo[d].pc = "loop" /\ todo[d].left # <<>>
    /\ sess.counter > Ceiling
    /\ LET e == Head(todo[d].left)
       IN /\ todo' = [todo EXCEPT ![d].pc = "awaiting", ![e].pc = "started"]
          /\ hist' = [hist EXCEPT !.inline = @ \cup {e}]
    /\ UNCHANGED <<disk, xml, db, committed, sess, budget>>

\* walk: the awaited walk(entry) has returned, the loop goes on
WalkResumes(d) ==
    /\ todo[d].pc = "awaiting"
    /\ todo[Head(todo[d].left)].pc = "done"
    /\ todo' = [todo EXCEPT ![d].pc = "loop", ![d].left = Tail(@)]
    /\ UNCHANGED <<disk, xml, db, committed, sess, hist, budget>>

\* walk: the loop over dir_entries with the counter at or below the
\* ceiling appends walk(entry) for every remaining subdirectory (no await
\* in between); with no task the walk returns, else the tasks are counted
\* and started by asyncio.as_completed
WalkDispatch(d) ==
    /\ todo[d].pc = "loop"
    /\ todo[d].left = <<>> \/ sess.counter <= Ceiling
    /\ LET tasks == todo[d].tasks \cup Range(todo[d].left)
       IN IF tasks = {}
          THEN /\ todo' = [todo EXCEPT ![d] = WalkState("done", <<>>, {}, {})]
               /\ UNCHANGED <<sess, hist>>
          ELSE /\ sess' = [sess EXCEPT !.counter = IncrCnt(@, Cardinality(tasks))]
               /\ hist' = Counted(sess'.counter)
               /\ todo' = [e \in ThrottleDirs |->
                             IF e = d THEN WalkState("joining", <<>>, tasks, {})
                             ELSE IF e \in tasks THEN [todo[e] EXCEPT !.pc = "started"]
                             ELSE todo[e]]
    /\ UNCHANGED <<disk, xml, db, committed, budget>>

\* walk: await task; await self._decr_cnt(1) for one completed task
WalkJoinOne(d, e) ==
    /\ todo[d].pc = "joining"
    /\ e \in todo[d].tasks \ todo[d].joined /\ todo[e].pc = "done"
    /\ sess' = [sess EXCEPT !.counter = DecrCnt(@, 1)]
    /\ todo' = [todo EXCEPT ![d].joined = @ \cup {e},
                            ![d].pc = IF todo[d].joined \cup {e} = todo[d].tasks
                                      THEN "done" ELSE @]
    /\ UNCHANGED <<disk, xml, db, committed, hist, budget>>

\* go_walk returns once walk(walk_path) has
GoWalkReturns ==
    /\ todo["r"].pc = "done" /\ ~sess.returned
    /\ sess' = [sess EXCEPT !.returned = TRUE]
    /\ UNCHANGED <<disk, xml, db, committed, todo, hist, budget>>

ThrottleNext ==
    \/ GoWalkRoot
    \/ \E d \in ThrottleDirs : WalkCallbacks(d)
    \/ \E d \in ThrottleDirs : WalkCommit(d)
    \/ \E d \in ThrottleDirs : WalkInline(d)
    \/ \E d \in ThrottleDirs : WalkResumes(d)
    \/ \E d \in ThrottleDirs : WalkDispatch(d)
    \/ \E d, e \in ThrottleDirs : WalkJoinOne(d, e)
    \/ GoWalkReturns

SpecThrottle == ThrottleInit /\ [][ThrottleNext]_vars

\* the event loop runs every coroutine that can run
SpecThrottleLive == SpecThrottle /\ WF_vars(ThrottleNext)

\* the subtree walks of d that were dispatched as tasks and have not
\* finished
InFlight(d) == {e \in todo[d].tasks : todo[e].pc # "done"}

\* C32: a directory with more subdirectories than the ceiling never has
\* the walks of all of them in flight at the same time.
C32_WideDirectoryThrottled ==
    \A d \in ThrottleDirs :
        Len(SubDirs(d)) > Ceiling => InFlight(d) # Range(SubDirs(d))

\* with the counter above the ceiling a subdirectory is walked inline
C32_InlineAboveCeiling ==
    \A d \in ThrottleDirs :
        (todo[d].pc = "awaiting") => hist.peak > Ceiling

\* C33: the outstanding-task counter is never negative.
C33_CounterNeverNegative == sess.counter >= 0

\* the counter went up for tasks and came down again as they completed
C33_CountedUpAndDown ==
    /\ hist.peak >= 2 /\ sess.counter = 0
    /\ \E d \in ThrottleDirs : todo[d].joined # {}

\* C34: the walk of a finite tree without failures ends: go_walk returns,
\* and when it has returned the counter is 0 and every directory of the
\* tree has its sidecar committed.
C34_GoWalkReturnsClean ==
    /\ <>(sess.returned)
    /\ [](sess.returned => (sess.counter = 0 /\ xml = ThrottleDirs))

\* go_walk has returned from a walk that dispatched tasks and walked a
\* subdirectory inline
C34_ReturnedAfterThrottling ==
    sess.returned /\ hist.peak >= 2 /\ hist.inline # {}

\* ---------------------------------------------------------------------------
\* Initialisation of one sidecar index (AsyncBkpXml.init_structs) called by
\* several coroutines on the same instance, followed by visits of the files
\* of the directory.  The persisted text is described by what the parser and
\* the schema make of it.  Here disk = [is_dir, exists, text], xml is the
\* in-memory root, todo the position of every caller, sess the lock.
\* ---------------------------------------------------------------------------
InitCallers == {1, 2, 3}

InitNames == {"a", "b"}

NoRoot == [none |-> TRUE]

EmptyDr == [valid |-> TRUE, frs |-> {}]

Fr(n, origin) == [fname |-> n, origin |-> origin]

\* Texts a sidecar file can hold: well-formed or not, and when well-formed the
\* tree it parses to, valid against the schema or not.
Texts ==
    { [syntax |-> s, valid |-> v, names |-> ns] :
        s \in BOOLEAN, v \in BOOLEAN, ns \in SUBSET InitNames }

Corrupt(text) == ~text.syntax \/ ~text.valid

RootFromString(text) ==
    IF text.syntax
    THEN [valid |-> text.valid, frs |-> {Fr(n, "file") : n \in text.names}]
    ELSE EmptyDr

ValidateXml(root) == root.valid

RootFromFilePathUnvalidated(text) == RootFromString(text)

RootFromFilePath(text) ==
    LET root == RootFromString(text)
    IN  IF ValidateXml(root) THEN root ELSE EmptyDr

RootNeverLoaded(root) == FALSE

RootLoaded(root) == root # NoRoot

StructsInit ==
    /\ disk \in [is_dir : BOOLEAN, exists : BOOLEAN, text : Texts]
    /\ xml = NoRoot
    /\ db = 0
    /\ committed = 0
    /\ todo = [p \in InitCallers |-> "start"]
    /\ sess = [lock |-> 0]
    /\ hist = [reads |-> 0, loaded |-> NoRoot, set |-> {}, visited |-> {},
               late |-> FALSE]
    /\ budget = 0

\* async with self.lock
InitAcquire(p) ==
    /\ todo[p] = "start"
    /\ sess.lock = 0
    /\ sess' = [sess EXCEPT !.lock = p]
    /\ todo' = [todo EXCEPT ![p] = "locked"]
    /\ UNCHANGED <<disk, xml, db, committed, hist, budget>>

\* if self.root is not None: return
InitCheckRoot(p) ==
    /\ todo[p] = "locked"
    /\ IF RootLoaded(xml)
       THEN /\ todo' = [todo EXCEPT ![p] = "returned"]
            /\ sess' = [sess EXCEPT !.lock = 0]
            /\ hist' = [hist EXCEPT !.late = @ \/ hist.set # {}]
       ELSE /\ todo' = [todo EXCEPT ![p] = "is_dir"]
            /\ UNCHANGED <<sess, hist>>
    /\ UNCHANGED <<disk, xml, db, committed, budget>>

\* if not await self.path.is_dir(): raise FileNotFoundError
InitIsDir(p) ==
    /\ todo[p] = "is_dir"
    /\ IF disk.is_dir
       THEN /\ todo' = [todo EXCEPT ![p] = "read"]
            /\ UNCHANGED sess
       ELSE /\ todo' = [todo EXCEPT ![p] = "raised"]
            /\ sess' = [sess EXCEPT !.lock = 0]
    /\ UNCHANGED <<disk, xml, db, committed, hist, budget>>

\* self.root = await self._root_from_file_path()  or  etree.Element("dr")
InitRead(p) ==
    /\ todo[p] = "read"
    /\ xml' = IF disk.exists THEN RootFromFilePath(disk.text) ELSE EmptyDr
    /\ hist' = [hist EXCEPT !.reads = @ + 1, !.loaded = xml']
    /\ todo' = [todo EXCEPT ![p] = "returned"]
    /\ sess' = [sess EXCEPT !.lock = 0]
    /\ UNCHANGED <<disk, db, committed, budget>>

HasRecord(root, n) == \E fr \in root.frs : fr.fname = n

\* visit_file of a file of the directory by a caller whose init returned: a
\* name without a record gets one computed from the file.
StructsVisit(n) ==
    /\ \E p \in InitCallers : todo[p] = "returned"
    /\ n \notin hist.visited
    /\ xml' = IF HasRecord(xml, n)
              THEN xml
              ELSE [xml EXCEPT !.frs = @ \cup {Fr(n, "visit")}]
    /\ hist' = [hist EXCEPT !.visited = @ \cup {n},
                            !.set = IF HasRecord(xml, n) THEN @ ELSE @ \cup {n}]
    /\ UNCHANGED <<disk, db, committed, todo, sess, budget>>

StructsNext ==
    \/ \E p \in InitCallers : InitAcquire(p)
    \/ \E p \in InitCallers : InitCheckRoot(p)
    \/ \E p \in InitCallers : InitIsDir(p)
    \/ \E p \in InitCallers : InitRead(p)
    \/ \E n \in InitNames : StructsVisit(n)

SpecStructs == StructsInit /\ [][StructsNext]_vars

InLock == {p \in InitCallers : todo[p] \in {"locked", "is_dir", "read"}}

\* C35: concurrent init() calls on one sidecar index serialize on its lock,
\* only the first reads and parses the persisted document, and a record set in
\* memory after the first init is never discarded by a later init.
C35_OnlyFirstInitLoads ==
    /\ Cardinality(InLock) <= 1
    /\ InLock \subseteq {sess.lock}
    /\ hist.reads <= 1
    /\ \A n \in hist.set : xml # NoRoot /\ Fr(n, "visit") \in xml.frs

\* A later init returned early after a record had been set in memory.
C35_LateInitKeepsRecords ==
    /\ hist.late
    /\ hist.reads = 1
    /\ \A p \in InitCallers : todo[p] = "returned"

\* C38: a persisted document that cannot be parsed or fails schema validation
\* makes init() return without raising and with an empty index, and the visits
\* that follow regenerate a record for every file present.
C38_CorruptDocumentStartsEmpty ==
    (disk.is_dir /\ disk.exists /\ Corrupt(disk.text)) =>
        /\ \A p \in InitCallers : todo[p] # "raised"
        /\ hist.reads > 0 => hist.loaded = EmptyDr
        /\ \A n \in hist.visited : Fr(n, "visit") \in xml.frs

\* A schema-invalid document with records was read and every file visited.
C38_InvalidDocumentRegenerated ==
    /\ disk.exists /\ disk.text.syntax /\ ~disk.text.valid
    /\ disk.text.names = InitNames
    /\ hist.reads = 1
    /\ hist.visited = InitNames

\* ---------------------------------------------------------------------------
\* The lock of the Central Index session (AsyncSessionWrapper).  Every wrapper
\* operation is the sequence of lock and session steps its code performs:
\* "acq" and "rel" enter and leave `async with self._lock`, "io" is an awaited
\* session call (execute, commit, delete) and "mem" a synchronous session.add.
\* Concurrent coroutines run these programs interleaved at the awaits.  Here
\* todo is the program left to each coroutine, sess the lock holder.
\* ---------------------------------------------------------------------------
MaxOps == 4

Coroutines == {1, 2, 3}

Repeat(n, steps) ==
    [i \in 1..(n * Len(steps)) |-> steps[((i - 1) % Len(steps)) + 1]]

AqueryGeneratorAlwaysLocks(skip_lock) == <<"acq", "io", "rel">>

AqueryGenerator(skip_lock) ==
    IF skip_lock THEN <<"io">> ELSE <<"acq", "io", "rel">>

AqueryOne == <<"acq", "io", "rel">>

\* aquery_many: one my_task per filter option
AqueryMany(n) == Repeat(n, <<"acq", "io", "rel">>)

SessionAdd == <<"acq", "mem", "io", "rel">>

\* filter: the query and the delete of each of the n rejected rows
SessionFilter(n) ==
    <<"acq">> \o AqueryGenerator(TRUE) \o Repeat(n, <<"io">>) \o <<"rel">>

CountFilesByBackupDestLength == <<"acq", "io", "rel">>

UpdateFileSteps(add_entry, ntags) ==
    AqueryOne \o AqueryMany(ntags)
        \o (IF add_entry THEN <<>> ELSE AqueryOne \o <<"acq", "rel">>)
        \o (IF add_entry THEN <<"acq", "mem", "rel">> ELSE <<>>)

DiscoverOneFile == AqueryGenerator(FALSE)

Operations ==
    {AqueryOne, SessionAdd, CountFilesByBackupDestLength, DiscoverOneFile}
        \cup {SessionFilter(n) : n \in 0..2}
        \cup {UpdateFileSteps(a, n) : a \in BOOLEAN, n \in 0..1}

NoOperation == [prog |-> <<>>, inflight |-> FALSE, filter |-> FALSE]

SessionInit ==
    /\ disk = 0
    /\ xml = 0
    /\ db = 0
    /\ committed = 0
    /\ todo = [t \in Coroutines |-> NoOperation]
    /\ sess = [lock |-> 0]
    /\ hist = [waited |-> FALSE]
    /\ budget = MaxOps

OpStarts(t) ==
    /\ todo[t].prog = <<>>
    /\ budget > 0
    /\ \E op \in Operations :
          todo' = [todo EXCEPT ![t] =
                      [prog |-> op, inflight |-> FALSE,
                       filter |-> op \in {SessionFilter(n) : n \in 0..2}]]
    /\ budget' = budget - 1
    /\ UNCHANGED <<disk, xml, db, committed, sess, hist>>

Advance(t) == [todo EXCEPT ![t].prog = Tail(@), ![t].inflight = FALSE]

LockAcquire(t) ==
    /\ todo[t].prog # <<>>
    /\ Head(todo[t].prog) = "acq"
    /\ sess.lock = 0
    /\ sess' = [sess EXCEPT !.lock = t]
    /\ todo' = Advance(t)
    /\ UNCHANGED <<disk, xml, db, committed, hist, budget>>

LockRelease(t) ==
    /\ todo[t].prog # <<>>
    /\ Head(todo[t].prog) = "rel"
    /\ sess' = [sess EXCEPT !.lock = 0]
    /\ todo' = Advance(t)
    /\ UNCHANGED <<disk, xml, db, committed, hist, budget>>

SessionIoBegins(t) ==
    /\ todo[t].prog # <<>>
    /\ Head(todo[t].prog) = "io"
    /\ ~todo[t].inflight
    /\ todo' = [todo EXCEPT ![t].inflight = TRUE]
    /\ hist' = [hist EXCEPT !.waited = @ \/
                   \E u \in Coroutines \ {t} :
                       todo[u].prog # <<>> /\ Head(todo[u].prog) = "acq"]
    /\ UNCHANGED <<disk, xml, db, committed, sess, budget>>

SessionIoEnds(t) ==
    /\ todo[t].prog # <<>>
    /\ Head(todo[t].prog) = "io"
    /\ todo[t].inflight
    /\ todo' = Advance(t)
    /\ UNCHANGED <<disk, xml, db, committed, sess, hist, budget>>

SessionMem(t) ==
    /\ todo[t].prog # <<>>
    /\ Head(todo[t].prog) = "mem"
    /\ todo' = Advance(t)
    /\ UNCHANGED <<disk, xml, db, committed, sess, hist, budget>>

SessionNext ==
    \/ \E t \in Coroutines : OpStarts(t)
    \/ \E t \in Coroutines : LockAcquire(t)
    \/ \E t \in Coroutines : LockRelease(t)
    \/ \E t \in Coroutines : SessionIoBegins(t)
    \/ \E t \in Coroutines : SessionIoEnds(t)
    \/ \E t \in Coroutines : SessionMem(t)

SpecSession == SessionInit /\ [][SessionNext]_vars

AtStep(t, step) == todo[t].prog # <<>> /\ Head(todo[t].prog) = step

\* C36: every session operation (query execution, add with commit, delete)
\* runs while the wrapper's lock is held, so at most one is in flight under
\* any interleaving, and no operation acquires the lock while holding it.
C36_SessionOpsUnderLock ==
    /\ \A t \in Coroutines :
          (todo[t].inflight \/ AtStep(t, "io") \/ AtStep(t, "mem"))
              => sess.lock = t
    /\ Cardinality({t \in Coroutines : todo[t].inflight}) <= 1
    /\ \A t \in Coroutines : AtStep(t, "acq") => sess.lock # t

\* A filter is deleting under the lock while another coroutine waits for it.
C36_FilterDeletesWhileOthersWait ==
    /\ hist.waited
    /\ \E t \in Coroutines :
          /\ todo[t].filter /\ todo[t].inflight /\ Len(todo[t].prog) = 2
          /\ \E u \in Coroutines \ {t} : AtStep(u, "acq")

\* ---------------------------------------------------------------------------
\* One directory of the walk with files whose content cannot be read: the
\* visit_file of such a file raises out of async_calculate_md5.  disk gives
\* every file its stat and whether its content is readable; todo and sess are
\* the positions of the visit_file coroutines and of walk(current_path).
\* ---------------------------------------------------------------------------
Readable(n) == disk[BarrierFile(n)].readable

UnreadableInit ==
    /\ disk \in [{BarrierFile(n) : n \in BarrierNames} ->
                    {[size |-> 2, mtime |-> 1, data |-> 1, readable |-> r] :
                        r \in BOOLEAN}]
    /\ xml \in {[d \in {VisitDir} |-> doc] : doc \in BarrierDocs}
    /\ db = <<>>
    /\ committed = <<>>
    /\ todo = [n \in BarrierNames |-> "created"]
    /\ sess = "visiting"
    /\ hist = [hashed |-> {}, called |-> {}]
    /\ budget = 0

\* visit_file: async_calculate_md5 returned the fingerprint
VisitHashes(n) ==
    /\ Readable(n)
    /\ VisitEnds(n)

\* visit_file: async_calculate_md5 raised, AsyncBkpXmlError is raised from it
VisitRaises(n) ==
    /\ todo[n] = "hashing"
    /\ ~Readable(n)
    /\ todo' = [todo EXCEPT ![n] = "raised"]
    /\ UNCHANGED <<disk, xml, db, committed, sess, hist, budget>>

\* asyncio.gather(*file_processing_tasks) raises the first exception of its
\* tasks into _visit_files_and_dirs, walk and go_walk; the other visit_file
\* tasks keep running
GatherRaises ==
    /\ sess = "visiting"
    /\ \E n \in BarrierNames : todo[n] = "raised"
    /\ sess' = "raised"
    /\ UNCHANGED <<disk, xml, db, committed, todo, hist, budget>>

UnreadableNext ==
    \/ \E n \in BarrierNames : VisitStarts(n)
    \/ \E n \in BarrierNames : VisitHashes(n)
    \/ \E n \in BarrierNames : VisitRaises(n)
    \/ GatherRaises
    \/ VisitsGathered
    \/ \E n \in BarrierNames : CallbackInvoked(n)
    \/ BarrierCommit

SpecUnreadable == UnreadableInit /\ [][UnreadableNext]_vars

\* C37: when the fingerprinting of one file of a directory fails, the other
\* files of the directory are still handed to the visitor callback, and the
\* failure reaches the caller of go_walk.
C37_OtherFilesHandedToCallback ==
    /\ (\E n \in BarrierNames : todo[n] = "raised") =>
          sess \in {"visiting", "raised"}
    /\ sess = "raised" =>
          \A n \in BarrierNames : todo[n] = "visited" => n \in hist.called

\* the failure of a visit is never followed by a callback or a commit of the
\* directory: the walk either still waits or has raised
C37_FailureEndsTheDirectory ==
    (\E n \in BarrierNames : todo[n] = "raised") =>
        (sess \in {"visiting", "raised"} /\ hist.called = {})

\* ---------------------------------------------------------------------------
\* Bdsa.update_file with the records a sidecar can hand to it, the guard on
\* fingerprint and mtime included.  Here db is the rows of backup_files as
\* the session holds them, hist the last call and the rows before it.
\* ---------------------------------------------------------------------------
MaxUpdates == 2

\* Python truth value of an int, a str or None
Truthy(v) == v # None /\ v # 0

GuardFiles == { <<"s1", "a">>, <<"s1", "b">> }

\* records of the sidecar: fingerprint empty or not, mtime unset, 0 or later
GuardRecords ==
    { [name |-> Name(f), file_path |-> f, size |-> 2, mtime |-> mt,
       md5 |-> h, bkp_dests |-> ds] :
        f \in GuardFiles, mt \in {None, 0, 1}, h \in {NoMd5, Md5(1)},
        ds \in SUBSET Dests }

\* update_file up to the guard: an existing entry is fetched again and its
\* destination list is cleared and replaced by the tags of the record
ReplaceDests(rows, bf, s) ==
    LET i == EntryIdx(rows, RelativeTo(bf.file_path, s), s)
    IN IF i = 0 THEN rows ELSE [rows EXCEPT ![i].dests = bf.bkp_dests]

\* if not (src_file.md5 and src_file.mtime): raise ValueError
GuardRaises(bf) == ~(Truthy(bf.md5) /\ Truthy(bf.mtime))

GuardedUpdateFile(rows, bf, s) ==
    IF GuardRaises(bf)
    THEN [rows |-> ReplaceDests(rows, bf, s), raised |-> TRUE]
    ELSE [rows |-> UpdateFile(rows, bf, s), raised |-> FALSE]

GuardInit ==
    /\ disk = 0
    /\ xml = 0
    /\ db \in { <<>> } \cup
              { << [filename |-> <<"a">>, src_path |-> "s1", size |-> 2,
                    timestamp |-> FromTimestamp(1), md5_hash |-> Md5(1),
                    visited |-> 0, dests |-> ds] >> : ds \in SUBSET Dests }
    /\ committed = 0
    /\ todo = 0
    /\ sess = 0
    /\ hist = [called |-> FALSE, raised |-> FALSE, bf |-> 0, pre |-> <<>>]
    /\ budget = MaxUpdates

UpdateFileCalled ==
    /\ budget > 0
    /\ \E bf \in GuardRecords :
          LET r == GuardedUpdateFile(db, bf, "s1")
          IN /\ db' = r.rows
             /\ hist' = [called |-> TRUE, raised |-> r.raised, bf |-> bf,
                         pre |-> db]
    /\ budget' = budget - 1
    /\ UNCHANGED <<disk, xml, committed, todo, sess>>

GuardNext == UpdateFileCalled

SpecGuard == GuardInit /\ [][GuardNext]_vars

\* C39: update_file fails exactly when the record's fingerprint is empty or
\* its timestamp is unset, so a record with a fingerprint and mtime 0 is
\* stored, and a rejected record leaves an existing entry and its
\* destination set unchanged.
C39_RejectedIffEmptyOrUnset ==
    hist.called =>
        /\ hist.raised <=> (hist.bf.md5 = NoMd5 \/ hist.bf.mtime = None)
        /\ hist.raised => db = hist.pre

\* a record with a fingerprint and a set, non-zero mtime is stored, and one
\* without a fingerprint or without an mtime is rejected
C39_GuardOnEmptyValues ==
    hist.called =>
        /\ (hist.bf.md5 = NoMd5 \/ hist.bf.mtime = None) => hist.raised
        /\ (Truthy(hist.bf.md5) /\ Truthy(hist.bf.mtime)) =>
              (~hist.raised /\ db = UpdateFile(hist.pre, hist.bf, "s1"))

\* ---------------------------------------------------------------------------
\* set(name, record) and get(name) of one sidecar index for names with
\* quotes and XML-special characters.  Here xml is the document of the
\* directory and hist the last set.
\* ---------------------------------------------------------------------------
MaxSets == 3

QuoteNames == {"a", "c's", "q\"t", "b'\"h", "p&q"}

\* _lkup_elem for a key with both kinds of quote: the key is put between
\* double quotes with its own double quotes left in, and find() rejects the
\* predicate with SyntaxError
PredicateInvalid(key) == key = "b'\"h"

QuoteRecord(n, mt) ==
    [name |-> n, file_path |-> Append(VisitDir, n), size |-> 2, mtime |-> mt,
     md5 |-> Md5(mt), bkp_dests |-> {}]

NamesInit ==
    /\ disk = 0
    /\ xml = <<>>
    /\ db = 0
    /\ committed = 0
    /\ todo = 0
    /\ sess = 0
    /\ hist = [op |-> "none", key |-> "", value |-> 0, raised |-> FALSE]
    /\ budget = MaxSets

\* bkp_xml[name] = record
SetName(n, mt) ==
    /\ budget > 0
    /\ xml' = IF PredicateInvalid(n) THEN xml
              ELSE SetItem(xml, n, QuoteRecord(n, mt))
    /\ hist' = [op |-> "set", key |-> n, value |-> QuoteRecord(n, mt),
                raised |-> PredicateInvalid(n)]
    /\ budget' = budget - 1
    /\ UNCHANGED <<disk, db, committed, todo, sess>>

NamesNext == \E n \in QuoteNames, mt \in {1, 2} : SetName(n, mt)

SpecNames == NamesInit /\ [][NamesNext]_vars

\* C40: for every name, with quotes or XML-special characters or not, the
\* record stored by set(name, record) is the one a following get(name)
\* returns, and the document never holds two records of one name.
C40_GetReturnsWhatSetStored ==
    /\ hist.op = "set" =>
          /\ ~hist.raised
          /\ GetItem(xml, VisitDir, hist.key) = hist.value
    /\ \A n \in QuoteNames : Len(Stored(xml, n)) <= 1

\* the same for the names without '&' and without both kinds of quote
C40_PlainAndSingleQuotedNames ==
    /\ (hist.op = "set" /\ hist.key \in {"a", "c's", "q\"t"}) =>
          /\ ~hist.raised
          /\ GetItem(xml, VisitDir, hist.key) = hist.value
    /\ \A n \in {"a", "c's", "q\"t"} : Len(Stored(xml, n)) <= 1

====
